---------------------------- MODULE Spec2Model ----------------------------
(***************************************************************************)
(* leanvox-node, in five parts that share this module:                     *)
(*                                                                         *)
(*  - the request executor (src/src/http.ts): one call of                  *)
(*    HTTPClient.request, HTTPClient.requestStream or HTTPClient.upload,   *)
(*    its retry loop, its deadline timer and the sleeps between attempts   *)
(*    (Spec, SpecDeep);                                                    *)
(*  - the error classifier raiseForStatus (src/unnamed/part_000,           *)
(*    errors.ts) applied to a status and a parsed body (SpecClassify);     *)
(*  - Leanvox.generate with its asynchronous route generateAsyncAndPoll    *)
(*    (src/src/client.ts), each awaited executor call taken as one step    *)
(*    (SpecGenerate, SpecGenerateFair), and the three methods generate,    *)
(*    generateAsync and stream side by side (SpecMethods);                 *)
(*  - several executor calls running at once on one HTTPClient             *)
(*    (SpecConcurrent);                                                    *)
(*  - the Leanvox constructor with the resolution and validation of the    *)
(*    API key (src/src/resources/account.ts, auth.ts) (SpecAuth).          *)
(*                                                                         *)
(* Each specification leaves the variables of the other parts at rest.     *)
(*                                                                         *)
(* A JavaScript value that may be undefined or null is a sequence of       *)
(* length at most one: << >> is undefined, <<v>> is the value v.           *)
(* A header value is a sequence of one-character strings.                  *)
(***************************************************************************)
EXTENDS Integers, Sequences, FiniteSets, TLC

VARIABLES
    \* The executor call.
    mode,        \* which executor method is running
    maxRetries,  \* HTTPClient.maxRetries, fixed by the constructor
    timeout,     \* HTTPClient.timeout (seconds), fixed by the constructor
    timeoutMs,   \* the call's own timeoutMs, when it gives one
    baseUrl,     \* HTTPClient.baseUrl, fixed by the constructor
    apiKey,      \* HTTPClient.apiKey, fixed by the constructor
    args,        \* the call's method, path, params and body
    url,         \* the local `url`, once new URL() made it
    sent,        \* the request every fetch() so far was called with
    attempt,     \* the loop variable `attempt`
    pc,          \* where the call is: start, loop, fetch, body, sleep, done
    timer,       \* TRUE while the attempt's setTimeout is armed
    deadlines,   \* the delay of every deadline timer armed so far
    calls,       \* the attempt index of every fetch() issued so far
    outcomes,    \* per settled fetch: its status (0 for a rejection),
                 \* its Retry-After header, whether the response has a
                 \* body, and its fault message
    bodyReads,   \* how many times response.json() was called
    jsonCalls,   \* per call of response.json(): TRUE when it resolves,
                 \* FALSE when it rejects
    openBodies,  \* response bodies received and neither read, cancelled
                 \* nor handed to the caller
    sleeps,      \* the argument of every this.sleep() so far
    pending,     \* while reading the body: what the handler does after it
    result,      \* what the call delivered to its caller
    \* One application of raiseForStatus.
    argStatus,   \* its argument `status`
    argBody,     \* its argument `body`
    thrown,      \* the error it threw, once it ran
    \* One call of Leanvox.generate (or generateAsync, or stream).
    method,      \* the method of Leanvox that was called
    autoAsyncThreshold,  \* Leanvox.autoAsyncThreshold
    options,     \* the GenerateOptions of the call
    gpc,         \* where the call is: start, sync, submit, wait, getJob, done
    current,     \* the local `current` of generateAsyncAndPoll
    observed,    \* the status of every Job the poll loop has tested
    answers,     \* what the server answers to the job requests still to
                 \* come: to the submit, then to each fetch of the job
    requests,    \* every executor call issued so far
    pollSleeps,  \* the delay of every poll sleep so far
    generated,   \* what generate() delivered to its caller
    \* Executor calls running at once on one HTTPClient.
    config,      \* the fields of the HTTPClient
    running,     \* per call: its mode, its locals and its logs
    \* One call of the Leanvox constructor.
    leanvoxOptions,  \* the LeanvoxOptions passed to it
    envKey,      \* process.env["LEANVOX_API_KEY"]
    configFile,  \* the content of ~/.lvox/config.toml, when the file exists
    constructed  \* what the constructor delivered: the client, or the error

execVars == <<mode, maxRetries, timeout, timeoutMs, baseUrl, apiKey, args, url, sent, attempt, pc,
              timer,
              deadlines, calls, outcomes, bodyReads, jsonCalls, openBodies,
              sleeps, pending, result>>

classifierVars == <<argStatus, argBody, thrown>>

clientVars == <<method, autoAsyncThreshold, options, gpc, current, observed, answers,
                requests, pollSleeps, generated>>

concurrentVars == <<config, running>>

authVars == <<leanvoxOptions, envKey, configFile, constructed>>

vars == <<execVars, classifierVars, clientVars, concurrentVars, authVars>>

---------------------------------------------------------------------------
(* Bounds of the model. *)

\* Spec draws maxRetries from -1..MaxRetries.
MaxRetries == 2

\* SpecDeep draws maxRetries from -1..MaxRetriesDeep.
MaxRetriesDeep == 4

---------------------------------------------------------------------------
(* JavaScript helpers. *)

Undefined == << >>

Some(v) == <<v>>

\* a ?? b
Coalesce(opt, default) == IF opt = Undefined THEN default ELSE opt[1]

Digits == {"0", "1", "2", "3", "4", "5", "6", "7", "8", "9"}

DigitVal(c) ==
    CASE c = "0" -> 0 [] c = "1" -> 1 [] c = "2" -> 2 [] c = "3" -> 3
      [] c = "4" -> 4 [] c = "5" -> 5 [] c = "6" -> 6 [] c = "7" -> 7
      [] c = "8" -> 8 [] c = "9" -> 9

---------------------------------------------------------------------------
(* Strings.  Len, SubSeq, Head, Tail and \o apply to strings as they do to  *)
(* sequences; a character is a string of length one.                       *)

\* String.prototype.charAt, counting from 1: "" outside the string.
CharAt(str, i) == IF i \in 1..Len(str) THEN SubSeq(str, i, i) ELSE ""

\* String.prototype.startsWith
StartsWith(str, prefix) ==
    /\ Len(str) >= Len(prefix)
    /\ SubSeq(str, 1, Len(prefix)) = prefix

\* The characters of str from position i on.
From(str, i) == SubSeq(str, i, Len(str))

\* The string as a sequence of one-character strings.
Chars(str) == [i \in 1..Len(str) |-> CharAt(str, i)]

\* The first position k >= i with str[k] in the set cs, Len(str) + 1 when
\* there is none.
RECURSIVE FirstIn(_, _, _)
FirstIn(str, i, cs) ==
    IF i > Len(str) \/ CharAt(str, i) \in cs
    THEN i
    ELSE FirstIn(str, i + 1, cs)

\* The first position k >= i with str[k] not in the set cs, Len(str) + 1
\* when there is none.
RECURSIVE FirstNotIn(_, _, _)
FirstNotIn(str, i, cs) ==
    IF i > Len(str) \/ CharAt(str, i) \notin cs
    THEN i
    ELSE FirstNotIn(str, i + 1, cs)

\* The last position k <= i with str[k] not in the set cs, 0 when there is
\* none.
RECURSIVE LastNotIn(_, _, _)
LastNotIn(str, i, cs) ==
    IF i < 1 \/ CharAt(str, i) \notin cs
    THEN i
    ELSE LastNotIn(str, i - 1, cs)

\* The position of the character c in str, 0 when it is not there.
IndexOf(str, c) ==
    LET k == FirstIn(str, 1, {c})
    IN  IF k > Len(str) THEN 0 ELSE k

\* What \s matches and trim() removes, among the characters a string of the
\* model can hold.
WhiteSpace == {" ", "\t", "\n", "\r", "\f"}

\* String.prototype.trim
Trim(str) ==
    SubSeq(str, FirstNotIn(str, 1, WhiteSpace), LastNotIn(str, Len(str), WhiteSpace))

UpperCaseLetters == "ABCDEFGHIJKLMNOPQRSTUVWXYZ"

LowerCaseLetters == "abcdefghijklmnopqrstuvwxyz"

\* String.prototype.toLowerCase, on ASCII.
RECURSIVE ToLowerCase(_)
ToLowerCase(str) ==
    IF str = ""
    THEN ""
    ELSE LET k == IndexOf(UpperCaseLetters, Head(str))
         IN  (IF k = 0 THEN Head(str) ELSE CharAt(LowerCaseLetters, k))
             \o ToLowerCase(Tail(str))

---------------------------------------------------------------------------
(* Numbers.  A JavaScript number is a double.  A natural number of any     *)
(* size is the sequence of its digits in base 10000, the least significant *)
(* first and the most significant not 0; << >> is zero.  A number that is  *)
(* slept on is written as Number.prototype.toString writes it ("1500",     *)
(* "123.39999999999999", "1e+21", "NaN", "Infinity"), negative zero as     *)
(* "-0".                                                                   *)

NaN == "NaN"

Infinity == "Infinity"

\* The integer n as a number.
Decimal(n) == ToString(n)

\* The decimal value of a string of digits.
RECURSIVE DecimalValue(_)
DecimalValue(str) ==
    IF str = ""
    THEN 0
    ELSE 10 * DecimalValue(SubSeq(str, 1, Len(str) - 1))
         + DigitVal(CharAt(str, Len(str)))

\* The string holds nothing but digits.
IsDigits(str) == FirstNotIn(str, 1, Digits) > Len(str)

\* The characters of s, a sequence of one-character strings, as a string.
RECURSIVE Text(_)
Text(s) == IF s = << >> THEN "" ELSE Head(s) \o Text(Tail(s))

RECURSIVE Zeros(_)
Zeros(n) == IF n <= 0 THEN "" ELSE "0" \o Zeros(n - 1)

\* The digit of a at position i.
Limb(a, i) == IF 1 <= i /\ i <= Len(a) THEN a[i] ELSE 0

\* a without its most significant zeros.
Canonical(a) ==
    SubSeq(a, 1, Cardinality({i \in 1..Len(a) : \E j \in i..Len(a) : a[j] # 0}))

\* The sums s[1], s[2], ... of two digits each carry 1 out of position i.
Carry(s, i) ==
    /\ i >= 1
    /\ \/ s[i] >= 10000
       \/ /\ s[i] = 9999
          /\ \E d \in 1..(i - 1) :
                /\ s[i - d] >= 10000
                /\ \A l \in (i - d + 1)..(i - 1) : s[l] = 9999

\* The number whose digit at position i is s[i], a sum of two digits.
Carried(s) ==
    Canonical([i \in 1..(Len(s) + 1) |->
                  (Limb(s, i) + IF Carry(s, i - 1) THEN 1 ELSE 0) % 10000])

\* a + b
Plus(a, b) ==
    Carried([i \in 1..(IF Len(a) > Len(b) THEN Len(a) ELSE Len(b)) |->
                Limb(a, i) + Limb(b, i)])

\* The differences d[1], d[2], ... of two digits each borrow 1 from
\* position i + 1.
Borrow(d, i) ==
    /\ i >= 1
    /\ \/ d[i] < 0
       \/ /\ d[i] = 0
          /\ \E e \in 1..(i - 1) :
                /\ d[i - e] < 0
                /\ \A l \in (i - e + 1)..(i - 1) : d[l] = 0

\* a - b, for a >= b
Minus(a, b) ==
    LET d == [i \in 1..Len(a) |-> a[i] - Limb(b, i)]
    IN  Canonical([i \in 1..Len(a) |->
                      (d[i] - (IF Borrow(d, i - 1) THEN 1 ELSE 0) + 10000) % 10000])

\* a * k, for an integer k in 0..10000
Times(a, k) ==
    Carried([i \in 1..(Len(a) + 1) |->
                ((Limb(a, i) * k) % 10000) + ((Limb(a, i - 1) * k) \div 10000)])

\* a < b
Less(a, b) ==
    IF Len(a) # Len(b)
    THEN Len(a) < Len(b)
    ELSE \E i \in 1..Len(a) :
            /\ a[i] < b[i]
            /\ \A j \in (i + 1)..Len(a) : a[j] = b[j]

\* a is odd.
Odd(a) == a # << >> /\ a[1] % 2 = 1

\* a * 2^n
RECURSIVE TimesPowerOf2(_, _)
TimesPowerOf2(a, n) ==
    IF n <= 13
    THEN Times(a, 2 ^ n)
    ELSE LET half == TimesPowerOf2(a, n \div 2)
         IN  IF half = << >> THEN << >> ELSE TimesPowerOf2(half, n - n \div 2)

\* a * 10^n
TimesPowerOf10(a, n) ==
    IF a = << >>
    THEN << >>
    ELSE [i \in 1..(n \div 4) |-> 0] \o Times(a, 10 ^ (n % 4))

\* The natural number a string of decimal digits stands for.
Natural(digits) ==
    Canonical([i \in 1..((Len(digits) + 3) \div 4) |->
                  DecimalValue(SubSeq(digits,
                                      IF Len(digits) < 4 * i THEN 1
                                      ELSE Len(digits) - 4 * i + 1,
                                      Len(digits) - 4 * i + 4))])

\* How many decimal digits a has; 0 for zero.
DecimalLength(a) ==
    IF a = << >> THEN 0 ELSE 4 * (Len(a) - 1) + Len(ToString(a[Len(a)]))

\* A finite double is m * 2^q for a natural number m below 2^53 and an
\* integer q from -1074 to 971, with m at least 2^52 unless q is -1074
\* (the subnormal numbers).
TwoTo52 == Natural("4503599627370496")

TwoTo53 == Natural("9007199254740992")

\* x and y, with x / y at least 1, brought to a quotient x / y below 2: y
\* grows by powers of two and e counts them.
RECURSIVE Halved(_, _, _)
Halved(x, y, e) ==
    IF Less(x, Times(y, 2))
    THEN [x |-> x, y |-> y, e |-> e]
    ELSE Halved(x, Times(y, 2), e + 1)

\* The quotient num / den as (x / y) * 2^e with x / y from 1 up to 2.  A
\* number of L decimal digits is from 10^(L - 1) up to 10^L, and 10 is
\* between 2^3.3219 and 2^3.3220.
Normalized(num, den) ==
    LET tens == DecimalLength(num) - DecimalLength(den) - 1
        twos == IF tens >= 0 THEN (tens * 33219) \div 10000
                ELSE 0 - ((0 - tens) * 33220 + 9999) \div 10000
    IN  IF twos >= 0
        THEN Halved(num, TimesPowerOf2(den, twos), twos)
        ELSE Halved(TimesPowerOf2(num, 0 - twos), den, twos)

\* One more binary digit of the quotient r / y < 1, appended to m.
NextBinaryDigit(state, y) ==
    LET twice == Times(state.r, 2)
    IN  IF Less(twice, y)
        THEN [m |-> Times(state.m, 2), r |-> twice]
        ELSE [m |-> Plus(Times(state.m, 2), <<1>>), r |-> Minus(twice, y)]

\* n more binary digits; they are zeros once nothing remains.
RECURSIVE BinaryDigits(_, _, _)
BinaryDigits(state, y, n) ==
    IF n = 0 THEN state
    ELSE IF n = 1 THEN NextBinaryDigit(state, y)
    ELSE LET half == BinaryDigits(state, y, n \div 2)
         IN  IF half.r = << >>
             THEN [m |-> TimesPowerOf2(half.m, n - n \div 2), r |-> << >>]
             ELSE BinaryDigits(half, y, n - n \div 2)

\* The quotient bits.m of the digits worked out and what remains of it,
\* bits.r / y < 1, rounded to the nearest natural number, a tie to the even
\* one, as the double that is the result times 2^lowest.
RoundedDouble(bits, y, lowest) ==
    LET twice == Times(bits.r, 2)
        m     == IF Less(y, twice) \/ (twice = y /\ Odd(bits.m))
                 THEN Plus(bits.m, <<1>>)
                 ELSE bits.m
    IN  IF m = << >>
        THEN [kind |-> "zero"]
        ELSE IF m = TwoTo53
        THEN IF lowest + 1 > 971
             THEN [kind |-> "infinity"]
             ELSE [kind |-> "finite", m |-> TwoTo52, q |-> lowest + 1]
        ELSE IF lowest > 971
        THEN [kind |-> "infinity"]
        ELSE [kind |-> "finite", m |-> m, q |-> lowest]

\* The double nearest to (v.x / v.y) * 2^top, a quotient of 1 or more and
\* less than 2: 53 binary digits are kept, fewer when the last of them would
\* stand for less than 2^-1074.
DoubleOfNormalized(v, top) ==
    LET lowest == IF top - 52 < -1074 THEN -1074 ELSE top - 52
    IN  IF top - lowest + 1 < 0
        THEN [kind |-> "zero"]
        ELSE RoundedDouble(BinaryDigits([m |-> << >>, r |-> v.x], Times(v.y, 2),
                                        top - lowest + 1),
                           Times(v.y, 2), lowest)

\* The normalized v with its power of two raised by shift.
Shifted(v, shift) == DoubleOfNormalized(v, v.e + shift)

\* The double nearest to (num / den) * 2^shift, for natural numbers num > 0
\* and den > 0, ties going to the even one: a finite double m * 2^q, zero or
\* infinity.
NearestDouble(num, den, shift) == Shifted(Normalized(num, den), shift)

\* The quotient of a by s when it is one of 0..9.
QuotientDigit(a, s) == CHOOSE d \in 0..9 : ~Less(a, Times(s, d)) /\ Less(a, Times(s, d + 1))

\* high / s is 1 or more, or more than 1: the digits need a higher power
\* of ten.
Exceeds(high, s, inclusive) == IF inclusive THEN ~Less(high, s) ELSE Less(s, high)

\* The shortest digits that tell the double from its neighbours.  The double
\* is r / s; the numbers that round to it reach m- / s below it and m+ / s
\* above it, the two ends included when the double is even.
RECURSIVE ShortestDigits(_, _, _, _, _)

\* The digits from the digit d on, rem / s being what remains after it and
\* plus and minus the reach of the double at that place.  When d and d + 1
\* both end the digits, the nearer one does, and the even one of two that
\* are as near.
DigitsFrom(d, rem, s, plus, minus, inclusive) ==
    LET low  == IF inclusive THEN ~Less(minus, rem) ELSE Less(rem, minus)
        high == Exceeds(Plus(rem, plus), s, inclusive)
    IN  IF ~low /\ ~high
        THEN ToString(d) \o ShortestDigits(rem, s, plus, minus, inclusive)
        ELSE IF low /\ ~high
        THEN ToString(d)
        ELSE IF high /\ ~low
        THEN ToString(d + 1)
        ELSE IF Less(Times(rem, 2), s) \/ (Times(rem, 2) = s /\ d % 2 = 0)
        THEN ToString(d)
        ELSE ToString(d + 1)

\* The digits of r10 / s, one of them before the point.
DigitsOfTenfold(r10, s, plus, minus, inclusive) ==
    DigitsFrom(QuotientDigit(r10, s), Minus(r10, Times(s, QuotientDigit(r10, s))),
               s, plus, minus, inclusive)

ShortestDigits(r, s, mPlus, mMinus, inclusive) ==
    DigitsOfTenfold(Times(r, 10), s, Times(mPlus, 10), Times(mMinus, 10), inclusive)

\* The power of ten n with r / s and its upper end (r + m+) / s below 10^n
\* and not below 10^(n - 1), and the numbers scaled by it.
RECURSIVE ScaledToTen(_, _, _, _, _, _)
ScaledToTen(r, s, mPlus, mMinus, inclusive, n) ==
    IF Exceeds(Plus(r, mPlus), s, inclusive)
    THEN ScaledToTen(r, Times(s, 10), mPlus, mMinus, inclusive, n + 1)
    ELSE IF ~Exceeds(Times(Plus(r, mPlus), 10), s, inclusive)
    THEN ScaledToTen(Times(r, 10), s, Times(mPlus, 10), Times(mMinus, 10), inclusive, n - 1)
    ELSE [r |-> r, s |-> s, mPlus |-> mPlus, mMinus |-> mMinus, n |-> n]

\* The same, from the power of ten the lengths of the numbers tell.
Scaled(r, s, mPlus, mMinus, inclusive) ==
    LET guess == DecimalLength(Plus(r, mPlus)) - DecimalLength(s)
        up    == IF guess > 0 THEN guess ELSE 0
        down  == IF guess < 0 THEN 0 - guess ELSE 0
    IN  ScaledToTen(TimesPowerOf10(r, down), TimesPowerOf10(s, up),
                    TimesPowerOf10(mPlus, down), TimesPowerOf10(mMinus, down),
                    inclusive, guess)

\* Number::toString of the positive number 0.digits * 10^n.
NumberToString(digits, n) ==
    LET k == Len(digits)
        e == n - 1
    IN  IF k <= n /\ n <= 21
        THEN digits \o Zeros(n - k)
        ELSE IF 0 < n /\ n <= 21
        THEN SubSeq(digits, 1, n) \o "." \o From(digits, n + 1)
        ELSE IF -6 < n /\ n <= 0
        THEN "0." \o Zeros(0 - n) \o digits
        ELSE Head(digits)
             \o (IF k = 1 THEN "" ELSE "." \o Tail(digits))
             \o "e" \o (IF e < 0 THEN "-" \o ToString(0 - e) ELSE "+" \o ToString(e))

\* The scaled double t as a string: its shortest digits at its power of ten.
ScaledToString(t, inclusive) ==
    NumberToString(ShortestDigits(t.r, t.s, t.mPlus, t.mMinus, inclusive), t.n)

\* The double m * 2^q as a string.  The double below it is half as far as
\* the one above when m is 2^52, the least of the 53-digit numbers.
DigitsOfDouble(m, q) ==
    LET closer == m = TwoTo52 /\ q > -1074
        two    == IF closer THEN 4 ELSE 2
        above  == IF closer THEN 2 ELSE 1
    IN  ScaledToString(Scaled(IF q >= 0 THEN TimesPowerOf2(Times(m, two), q)
                                        ELSE Times(m, two),
                              IF q >= 0 THEN <<two>> ELSE TimesPowerOf2(<<two>>, 0 - q),
                              IF q >= 0 THEN TimesPowerOf2(<<above>>, q) ELSE <<above>>,
                              IF q >= 0 THEN TimesPowerOf2(<<1>>, q) ELSE <<1>>,
                              ~Odd(m)),
                       ~Odd(m))

\* The largest and the smallest power of ten a double can hold.
MaxExponent == 308

MinExponent == -324

\* The value of an exponent's digits; past four digits the number is out of
\* a double's range whatever they are.
ExponentValue(str) ==
    LET first == FirstNotIn(str, 1, {"0"})
    IN  IF Len(str) - first + 1 > 4 THEN 10000 ELSE DecimalValue(From(str, first))

\* The double of the decimal digits * 10^exponent: the nearest one.
DoubleOfDecimal(digits, exponent) ==
    NearestDouble(IF exponent >= 0
                  THEN TimesPowerOf10(Natural(digits), exponent)
                  ELSE Natural(digits),
                  IF exponent >= 0 THEN <<1>> ELSE TimesPowerOf10(<<1>>, 0 - exponent),
                  0)

\* The product of the positive double d and 1000, as a double.
Times1000(d) ==
    IF d.kind = "finite" THEN NearestDouble(Times(d.m, 1000), <<1>>, d.q) ELSE d

\* The positive double d as a string.
DoubleToString(d) ==
    CASE d.kind = "zero" -> "0"
      [] d.kind = "infinity" -> Infinity
      [] d.kind = "finite" -> DigitsOfDouble(d.m, d.q)

\* The decimal literal whole.part x 10^exponent times 1000.  The literal is
\* d.ddd x 10^magnitude: it is past every double when its magnitude is above
\* 308 and rounds to zero when it is below -324; the literals between become
\* the nearest double, and so does the product.
DecimalTimes1000(whole, part, exponent) ==
    LET digits    == whole \o part
        lead      == FirstNotIn(digits, 1, {"0"})
        magnitude == Len(whole) + exponent - lead
    IN  IF digits = "" THEN NaN
        ELSE IF lead > Len(digits) \/ magnitude < MinExponent THEN "0"
        ELSE IF magnitude > MaxExponent THEN Infinity
        ELSE DoubleToString(Times1000(DoubleOfDecimal(From(digits, lead),
                                                      exponent - Len(part))))

\* The exponent that str starts with: e or E, an optional sign and digits;
\* 0 when it starts with none.
ExponentPart(str) ==
    LET signed == CharAt(str, 2) \in {"+", "-"}
        begin  == IF signed THEN 3 ELSE 2
        digits == SubSeq(str, begin, FirstNotIn(str, begin, Digits) - 1)
    IN  IF CharAt(str, 1) \notin {"e", "E"} \/ digits = ""
        THEN 0
        ELSE IF CharAt(str, 2) = "-"
        THEN 0 - ExponentValue(digits)
        ELSE ExponentValue(digits)

\* The digits whole, then str, which holds the rest of the literal: a point
\* with the digits after it, and an exponent.
FractionTimes1000(whole, str) ==
    LET stop == IF CharAt(str, 1) = "." THEN FirstNotIn(str, 2, Digits) ELSE 1
    IN  DecimalTimes1000(whole, SubSeq(str, 2, stop - 1), ExponentPart(From(str, stop)))

\* The literal without its sign.
UnsignedTimes1000(str) ==
    IF StartsWith(str, Infinity)
    THEN Infinity
    ELSE FractionTimes1000(SubSeq(str, 1, FirstNotIn(str, 1, Digits) - 1),
                           From(str, FirstNotIn(str, 1, Digits)))

\* The sign before the number that is written str.
Signed(sign, str) == IF str = NaN THEN NaN ELSE sign \o str

\* The literal that str starts with.
LiteralTimes1000(str) ==
    Signed(IF CharAt(str, 1) = "-" THEN "-" ELSE "",
           UnsignedTimes1000(IF CharAt(str, 1) \in {"+", "-"} THEN Tail(str) ELSE str))

\* parseFloat(s) * 1000.  parseFloat skips leading white space and reads the
\* longest prefix that is a decimal literal: a sign, then "Infinity" or
\* digits with an optional point and an optional exponent; what follows is
\* ignored, and the result is NaN when there is no such prefix.
ParseFloatTimes1000(s) ==
    LiteralTimes1000(From(Text(s), FirstNotIn(Text(s), 1, WhiteSpace)))

---------------------------------------------------------------------------
(* errors.ts: the error classes and raiseForStatus. *)

LeanvoxError(message, code, statusCode, body) ==
    [name |-> "LeanvoxError", message |-> message, code |-> code,
     statusCode |-> statusCode, body |-> body,
     balanceCents |-> Undefined, retryAfter |-> Undefined]

InvalidRequestError(message, code, body) ==
    [LeanvoxError(message, code, 400, body) EXCEPT !.name = "InvalidRequestError"]

AuthenticationError(message, code, body) ==
    [LeanvoxError(message, code, 401, body) EXCEPT !.name = "AuthenticationError"]

InsufficientBalanceError(message, code, body, balanceCents) ==
    [LeanvoxError(message, code, 402, body) EXCEPT
        !.name = "InsufficientBalanceError", !.balanceCents = balanceCents]

NotFoundError(message, code, body) ==
    [LeanvoxError(message, code, 404, body) EXCEPT !.name = "NotFoundError"]

RateLimitError(message, code, body, retryAfter) ==
    [LeanvoxError(message, code, 429, body) EXCEPT
        !.name = "RateLimitError", !.retryAfter = retryAfter]

ServerError(message, code, body) ==
    [LeanvoxError(message, code, 500, body) EXCEPT !.name = "ServerError"]

\* The statuses STATUS_MAP has a class for.
STATUS_MAP == {400, 401, 404, 500}

StatusMapError(status, message, code, body) ==
    CASE status = 400 -> InvalidRequestError(message, code, body)
      [] status = 401 -> AuthenticationError(message, code, body)
      [] status = 404 -> NotFoundError(message, code, body)
      [] status = 500 -> ServerError(message, code, body)

\* body?.error?.<field>: body is an optional JSON object whose `error` is an
\* optional object of optional fields.
ErrData(body) == IF body = Undefined THEN Undefined ELSE body[1].error

ErrMessage(body) ==
    IF ErrData(body) = Undefined THEN Undefined ELSE ErrData(body)[1].message

ErrCode(body) ==
    IF ErrData(body) = Undefined THEN Undefined ELSE ErrData(body)[1].code

ErrBalanceCents(body) ==
    IF ErrData(body) = Undefined THEN Undefined ELSE ErrData(body)[1].balance_cents

ErrRetryAfter(body) ==
    IF ErrData(body) = Undefined THEN Undefined ELSE ErrData(body)[1].retry_after

\* Mutant: 502, 503 and 504 are classified as ServerError.
raiseForStatus_GatewayIsServerError(status, body) ==
    LET message == Coalesce(ErrMessage(body),
                            "API error (status " \o ToString(status) \o ")")
        code    == Coalesce(ErrCode(body), "unknown")
    IN  IF status = 402
        THEN InsufficientBalanceError(message, code, body, ErrBalanceCents(body))
        ELSE IF status = 429
        THEN RateLimitError(message, code, body, ErrRetryAfter(body))
        ELSE IF status \in STATUS_MAP
        THEN StatusMapError(status, message, code, body)
        ELSE IF status \in {502, 503, 504}
        THEN ServerError(message, code, body)
        ELSE LeanvoxError(message, code, status, body)

\* Mutant: every error copies balance_cents and retry_after from the body.
raiseForStatus_FieldsOnEveryError(status, body) ==
    LET message == Coalesce(ErrMessage(body),
                            "API error (status " \o ToString(status) \o ")")
        code    == Coalesce(ErrCode(body), "unknown")
        base    == IF status = 402
                   THEN InsufficientBalanceError(message, code, body, Undefined)
                   ELSE IF status = 429
                   THEN RateLimitError(message, code, body, Undefined)
                   ELSE IF status \in STATUS_MAP
                   THEN StatusMapError(status, message, code, body)
                   ELSE LeanvoxError(message, code, status, body)
    IN  [base EXCEPT !.balanceCents = ErrBalanceCents(body),
                     !.retryAfter = ErrRetryAfter(body)]

\* The error raiseForStatus(status, body) throws.
raiseForStatus(status, body) ==
    LET message == Coalesce(ErrMessage(body),
                            "API error (status " \o ToString(status) \o ")")
        code    == Coalesce(ErrCode(body), "unknown")
    IN  IF status = 402
        THEN InsufficientBalanceError(message, code, body, ErrBalanceCents(body))
        ELSE IF status = 429
        THEN RateLimitError(message, code, body, ErrRetryAfter(body))
        ELSE IF status \in STATUS_MAP
        THEN StatusMapError(status, message, code, body)
        ELSE LeanvoxError(message, code, status, body)

---------------------------------------------------------------------------
(* http.ts: constants and the decisions of the retry loop. *)

RETRYABLE_STATUS_CODES == {429, 500, 502, 503, 504}

BACKOFF_SCHEDULE == <<1000, 2000, 4000>>

Modes == {"request", "requestStream", "upload"}

\* What fetch() settles with: a Response, or a rejection.
Response(status, retryAfter, hasBody, json, statusText, message) ==
    [kind |-> "response", status |-> status,
     retryAfter |-> retryAfter,   \* headers.get("Retry-After"): optional string
     hasBody |-> hasBody,         \* response.body is not null
     json |-> json,               \* response.json(): << >> rejects, <<v>> resolves
     statusText |-> statusText,
     message |-> message]         \* of the error response.json() rejects with

Rejection(message) ==
    [kind |-> "rejection", status |-> 0, retryAfter |-> Undefined,
     hasBody |-> FALSE, json |-> Undefined, statusText |-> "",
     message |-> message]

\* What a handler does next: return a value, throw an error, or sleep and
\* retry.  viaBody says that it awaited response.json() before doing so.
Return(value, viaBody) ==
    [kind |-> "return", value |-> value, error |-> Undefined,
     delay |-> Undefined, viaBody |-> viaBody]

Throw(error, viaBody) ==
    [kind |-> "throw", value |-> Undefined, error |-> Some(error),
     delay |-> Undefined, viaBody |-> viaBody]

Retry(delay, viaBody) ==
    [kind |-> "retry", value |-> Undefined, error |-> Undefined,
     delay |-> Some(delay), viaBody |-> viaBody]

NoDisposition ==
    [kind |-> "none", value |-> Undefined, error |-> Undefined,
     delay |-> Undefined, viaBody |-> FALSE]

\* Mutant: the loop stops one attempt early.
LoopGuard_StopsEarly(a, n) == a < n

\* for (...; attempt <= this.maxRetries; ...)
LoopGuard(a, n) == a <= n

\* Mutant: the last attempt is retried too.
RetryPermitted_OffByOne(a, n) == a <= n

\* attempt < this.maxRetries
RetryPermitted(a, n) == a < n

\* Mutant: every error status is retried.
IsRetryableStatus_AnyError(status) == status >= 400

IsRetryableStatus(status) == status \in RETRYABLE_STATUS_CODES

\* response.ok
IsOk(status) == status \in 200..299

\* A string used as a condition: null and "" are falsy.
Truthy(opt) == opt # Undefined /\ opt[1] # << >>

\* Mutant: the delay keeps doubling past the schedule.
BackoffDelay_Doubling(a) == Decimal(1000 * 2 ^ a)

\* BACKOFF_SCHEDULE[attempt] ?? BACKOFF_SCHEDULE[BACKOFF_SCHEDULE.length - 1]
BackoffDelay(a) ==
    IF a + 1 \in 1..Len(BACKOFF_SCHEDULE)
    THEN Decimal(BACKOFF_SCHEDULE[a + 1])
    ELSE Decimal(BACKOFF_SCHEDULE[Len(BACKOFF_SCHEDULE)])

\* The Retry-After values the servers of the specifications send.
Chars001 == <<"0", ".", "0", "1">>

Chars15 == <<"1", ".", "5">>

CharsDate == <<"W", "e", "d">>

\* parseFloat(retryAfter) * 1000 of these values, worked out once.
RetryAfterDelays == [h \in {Chars001, Chars15, CharsDate} |-> ParseFloatTimes1000(h)]

\* The delay before the retry that follows a retryable response.
ResponseRetryDelay(m, a, r) ==
    IF m = "upload"
    THEN BackoffDelay(a)
    ELSE IF Truthy(r.retryAfter)
         THEN IF r.retryAfter[1] \in DOMAIN RetryAfterDelays
              THEN RetryAfterDelays[r.retryAfter[1]]
              ELSE ParseFloatTimes1000(r.retryAfter[1])
         ELSE BackoffDelay(a)

\* Mutant: exhaustion after a rejection raises the generic max_retries error.
CatchHandler_Generic(a, n, message, viaBody) ==
    IF RetryPermitted(a, n)
    THEN Retry(BackoffDelay(a), viaBody)
    ELSE Throw(LeanvoxError("Max retries exceeded", "max_retries", 0, Undefined),
               viaBody)

\* The catch block for an error that is not a LeanvoxError.
CatchHandler(a, n, message, viaBody) ==
    IF RetryPermitted(a, n)
    THEN Retry(BackoffDelay(a), viaBody)
    ELSE Throw(LeanvoxError("Network error: " \o message, "network_error", 0,
                            Undefined), viaBody)

\* err.message of the error response.json() rejected with: the JSON parser
\* words it after the text of the body.
JsonErrorMessage(r) == r.message

\* Mutant: requestStream does not test response.body.
Succeeds_AnyOk(m, r) == IsOk(r.status)

\* The success test of each method.
Succeeds(m, r) ==
    IF m = "requestStream" THEN IsOk(r.status) /\ r.hasBody ELSE IsOk(r.status)

\* Mutant: request parses the body of a 204 like any other success.
SuccessBranch_No204(m, a, n, r) ==
    IF m = "requestStream"
    THEN Return(Some([stream |-> "body", headers |-> r.retryAfter]), FALSE)
    ELSE IF r.json # Undefined
    THEN Return(r.json, TRUE)
    ELSE CatchHandler(a, n, JsonErrorMessage(r), TRUE)

\* What the success branch does.
SuccessBranch(m, a, n, r) ==
    IF m = "requestStream"
    THEN Return(Some([stream |-> "body", headers |-> r.retryAfter]), FALSE)
    ELSE IF m = "request" /\ r.status = 204
    THEN Return(Undefined, FALSE)
    ELSE IF r.json # Undefined
    THEN Return(r.json, TRUE)
    ELSE CatchHandler(a, n, JsonErrorMessage(r), TRUE)

\* body = await response.json(), or { error: { message: statusText } }.
ErrorBody(r) ==
    IF r.json # Undefined
    THEN r.json
    ELSE Some([error |-> Some([message |-> Some(r.statusText),
                               code |-> Undefined,
                               balance_cents |-> Undefined,
                               retry_after |-> Undefined]),
               data |-> Undefined])

\* Mutant: the catch block does not rethrow the LeanvoxError.
ErrorBranch_NotRethrown(a, n, r) ==
    CatchHandler(a, n, raiseForStatus(r.status, ErrorBody(r)).message, TRUE)

\* The error branch: raiseForStatus, whose LeanvoxError the catch rethrows.
ErrorBranch(a, n, r) == Throw(raiseForStatus(r.status, ErrorBody(r)), TRUE)

\* One attempt's handler, from the settling of fetch() to the next sleep,
\* return or throw.
Handle(m, a, n, o) ==
    IF o.kind = "rejection"
    THEN CatchHandler(a, n, o.message, FALSE)
    ELSE IF Succeeds(m, o)
    THEN SuccessBranch(m, a, n, o)
    ELSE IF IsRetryableStatus(o.status) /\ RetryPermitted(a, n)
    THEN Retry(ResponseRetryDelay(m, a, o), FALSE)
    ELSE ErrorBranch(a, n, o)

SDK_VERSION == "0.1.0"

\* The arguments of a call: request(method, path, {body, params}),
\* requestStream(method, path, {body}), upload(path, formData).  params is a
\* sequence of entries in the order of Object.entries.
CallArgs(httpMethod, path, params, body) ==
    [method |-> httpMethod, path |-> path, params |-> params, body |-> body]

\* JavaScript values, as params and JSON bodies hold them: a number (an
\* integer), a string, a boolean, null, an array of values, and an object,
\* which is the sequence of its own properties in the order Object.entries
\* lists them.  A property or an item that is undefined holds << >>.
Num(n) == [type |-> "number", v |-> n]

Str(str) == [type |-> "string", v |-> str]

Bool(b) == [type |-> "boolean", v |-> b]

Null == [type |-> "null", v |-> << >>]

Arr(items) == [type |-> "array", v |-> items]

Obj(entries) == [type |-> "object", v |-> entries]

\* String(value)
String(value) ==
    CASE value.type = "number" -> ToString(value.v)
      [] value.type = "string" -> value.v
      [] value.type = "boolean" -> IF value.v THEN "true" ELSE "false"
      [] value.type = "null" -> "null"

\* The printable ASCII characters from the space (32) to the underscore
\* (95), the grave accent (96), and those from a (97) to the tilde (126).
AsciiFrom32 == " !\"#$%&'()*+,-./0123456789:;<=>?@ABCDEFGHIJKLMNOPQRSTUVWXYZ[\\]^_"

\* The grave accent (a string holds it only when an apostrophe follows).
GraveAccent == Head("`'")

AsciiFrom97 == "abcdefghijklmnopqrstuvwxyz{|}~"

\* The code of an ASCII character.
CharCode(c) ==
    CASE c = "\t" -> 9
      [] c = "\n" -> 10
      [] c = "\f" -> 12
      [] c = "\r" -> 13
      [] c = GraveAccent -> 96
      [] IndexOf(AsciiFrom32, c) # 0 -> 31 + IndexOf(AsciiFrom32, c)
      [] IndexOf(AsciiFrom97, c) # 0 -> 96 + IndexOf(AsciiFrom97, c)

\* The bytes of an ASCII string, which are the codes of its characters.
UTF8Encode(str) == [k \in 1..Len(str) |-> CharCode(CharAt(str, k))]

\* The character of an ASCII code.
FromCharCode(n) ==
    CASE n = 9 -> "\t"
      [] n = 10 -> "\n"
      [] n = 12 -> "\f"
      [] n = 13 -> "\r"
      [] n \in 32..95 -> CharAt(AsciiFrom32, n - 31)
      [] n = 96 -> GraveAccent
      [] n \in 97..126 -> CharAt(AsciiFrom97, n - 96)

HexDigits == "0123456789ABCDEF"

\* The percent-encoding of the byte of an ASCII character.
PercentEncode(c) ==
    "%" \o CharAt(HexDigits, (CharCode(c) \div 16) + 1)
        \o CharAt(HexDigits, (CharCode(c) % 16) + 1)

AsciiAlphanumeric ==
    {CharAt(UpperCaseLetters, k) : k \in 1..Len(UpperCaseLetters)}
    \cup {CharAt(LowerCaseLetters, k) : k \in 1..Len(LowerCaseLetters)}
    \cup {"0", "1", "2", "3", "4", "5", "6", "7", "8", "9"}

\* The percent-encoding of a byte.
PercentEncodeByte(b) ==
    "%" \o CharAt(HexDigits, (b \div 16) + 1) \o CharAt(HexDigits, (b % 16) + 1)

\* The bytes the serialiser of URLSearchParams leaves as they are: the
\* alphanumerics and * - . _
Unescaped == {42, 45, 46, 95} \cup (48..57) \cup (65..90) \cup (97..122)

\* The application/x-www-form-urlencoded serialisation of a name or a value,
\* as URLSearchParams writes its bytes into the query: a space becomes +,
\* the alphanumerics and * - . _ stay, every other byte is percent-encoded.
RECURSIVE FormUrlencode(_)
FormUrlencode(bytes) ==
    IF bytes = << >>
    THEN ""
    ELSE (CASE Head(bytes) = 32 -> "+"
            [] Head(bytes) \in Unescaped -> FromCharCode(Head(bytes))
            [] OTHER -> PercentEncodeByte(Head(bytes)))
         \o FormUrlencode(Tail(bytes))

\* value !== undefined && value !== ""
IsSet(entry) ==
    /\ entry.value # Undefined
    /\ ~(entry.value[1].type = "string" /\ entry.value[1].v = "")

\* URLSearchParams.set: the value of the first pair of that name is
\* replaced and the other pairs of that name are removed, or the pair is
\* appended.  A pair holds its name and its value as the bytes of their
\* UTF-8 encoding.
SetParam(pairs, pair) ==
    LET found == {k \in 1..Len(pairs) : pairs[k].key = pair.key}
        first == CHOOSE k \in found : \A l \in found : k <= l
    IN  IF found = {}
        THEN Append(pairs, pair)
        ELSE SubSeq(pairs, 1, first - 1) \o <<pair>>
             \o SelectSeq(SubSeq(pairs, first + 1, Len(pairs)),
                          LAMBDA q : q.key # pair.key)

\* The pairs of url.searchParams after url.searchParams.set(key,
\* String(value)) for every entry of params whose value is neither undefined
\* nor "".
RECURSIVE SearchParams(_, _)
SearchParams(params, pairs) ==
    IF params = << >>
    THEN pairs
    ELSE LET entry == Head(params)
         IN  SearchParams(Tail(params),
                          IF IsSet(entry)
                          THEN SetParam(pairs, [key |-> UTF8Encode(entry.key),
                                                value |-> UTF8Encode(String(entry.value[1]))])
                          ELSE pairs)

\* The query the pairs serialise to, without its question mark.
RECURSIVE SerializeParams(_)
SerializeParams(pairs) ==
    IF pairs = << >>
    THEN ""
    ELSE FormUrlencode(Head(pairs).key) \o "=" \o FormUrlencode(Head(pairs).value)
         \o (IF Len(pairs) > 1 THEN "&" ELSE "")
         \o SerializeParams(Tail(pairs))

\* The value of a hexadecimal digit, -1 for another character.
HexValue(c) == IndexOf(HexDigits, IF IndexOf("abcdef", c) # 0
                                  THEN CharAt("ABCDEF", IndexOf("abcdef", c))
                                  ELSE c) - 1

\* The bytes of str with every %XX replaced by the byte it names.
RECURSIVE PercentDecode(_)
PercentDecode(str) ==
    IF str = ""
    THEN << >>
    ELSE IF /\ Head(str) = "%"
            /\ Len(str) >= 3
            /\ HexValue(CharAt(str, 2)) >= 0
            /\ HexValue(CharAt(str, 3)) >= 0
    THEN <<16 * HexValue(CharAt(str, 2)) + HexValue(CharAt(str, 3))>>
         \o PercentDecode(From(str, 4))
    ELSE <<CharCode(Head(str))>> \o PercentDecode(Tail(str))

\* The string of bytes that are codes of characters.
RECURSIVE FromCharCodes(_)
FromCharCodes(bytes) ==
    IF bytes = << >>
    THEN ""
    ELSE FromCharCode(Head(bytes)) \o FromCharCodes(Tail(bytes))

\* The ranges in which the bytes that follow the byte b lie in a well-formed
\* UTF-8 sequence, none when b starts no sequence of several bytes.
ContinuationBytes == 128..191

FollowingBytes(b) ==
    CASE b \in 194..223 -> <<ContinuationBytes>>
      [] b = 224 -> <<160..191, ContinuationBytes>>
      [] b \in (225..236) \cup {238, 239} -> <<ContinuationBytes, ContinuationBytes>>
      [] b = 237 -> <<128..159, ContinuationBytes>>
      [] b = 240 -> <<144..191, ContinuationBytes, ContinuationBytes>>
      [] b \in 241..243 -> <<ContinuationBytes, ContinuationBytes, ContinuationBytes>>
      [] b = 244 -> <<128..143, ContinuationBytes, ContinuationBytes>>
      [] OTHER -> << >>

\* How many of the bytes after the first lie in the ranges, one after the
\* other, from the k-th range on.
RECURSIVE Followed(_, _, _)
Followed(bytes, ranges, k) ==
    IF k > Len(ranges) \/ k >= Len(bytes)
    THEN k - 1
    ELSE IF bytes[k + 1] \notin ranges[k]
    THEN k - 1
    ELSE Followed(bytes, ranges, k + 1)

\* What the UTF-8 decoder makes of the bytes, each character held as the
\* bytes of its UTF-8 encoding: a well-formed sequence is one character; a
\* byte that starts none, or the start of one that is cut short, is the
\* replacement character U+FFFD (EF BF BD).
RECURSIVE UTF8Decode(_)
UTF8Decode(bytes) ==
    IF bytes = << >>
    THEN << >>
    ELSE LET ranges == FollowingBytes(Head(bytes))
             n      == Followed(bytes, ranges, 1)
         IN  (IF Head(bytes) < 128 \/ (ranges # << >> /\ n = Len(ranges))
              THEN SubSeq(bytes, 1, n + 1)
              ELSE <<239, 191, 189>>)
             \o UTF8Decode(SubSeq(bytes, n + 2, Len(bytes)))

\* str with every + replaced by a space.
RECURSIVE PlusToSpace(_)
PlusToSpace(str) ==
    IF str = ""
    THEN ""
    ELSE (IF Head(str) = "+" THEN " " ELSE Head(str)) \o PlusToSpace(Tail(str))

\* A name or a value of a query as url.searchParams holds it: + is a space,
\* the escapes are decoded, the bytes are read as UTF-8.
Unescape(str) == UTF8Decode(PercentDecode(PlusToSpace(str)))

\* The application/x-www-form-urlencoded parser on the pieces of a query
\* between its ampersands: the pairs url.searchParams starts with.
RECURSIVE ParsePairs(_)
ParsePairs(pieces) ==
    IF pieces = << >>
    THEN << >>
    ELSE LET piece == Head(pieces)
             eq    == FirstIn(piece, 1, {"="})
         IN  (IF piece = ""
              THEN << >>
              ELSE <<[key |-> Unescape(SubSeq(piece, 1, eq - 1)),
                      value |-> Unescape(From(piece, eq + 1))]>>)
             \o ParsePairs(Tail(pieces))

\* A string as JSON.stringify quotes it.
RECURSIVE QuoteJSONString(_)
QuoteJSONString(str) ==
    IF str = ""
    THEN ""
    ELSE (CASE Head(str) = "\"" -> "\\\""
            [] Head(str) = "\\" -> "\\\\"
            [] Head(str) = "\n" -> "\\n"
            [] Head(str) = "\r" -> "\\r"
            [] Head(str) = "\t" -> "\\t"
            [] Head(str) = "\f" -> "\\f"
            [] OTHER -> Head(str))
         \o QuoteJSONString(Tail(str))

\* JSON.stringify(value).  An undefined property is left out of its object,
\* an undefined item of an array is written null.
RECURSIVE JSONStringify(_)
RECURSIVE JSONProperties(_, _)
RECURSIVE JSONItems(_)
JSONStringify(value) ==
    CASE value.type = "string" -> "\"" \o QuoteJSONString(value.v) \o "\""
      [] value.type = "array" -> "[" \o JSONItems(value.v) \o "]"
      [] value.type = "object" -> "{" \o JSONProperties(value.v, "") \o "}"
      [] OTHER -> String(value)

JSONProperties(entries, written) ==
    IF entries = << >>
    THEN written
    ELSE JSONProperties(Tail(entries),
                        IF Head(entries).value = Undefined
                        THEN written
                        ELSE written \o (IF written = "" THEN "" ELSE ",")
                                     \o "\"" \o QuoteJSONString(Head(entries).key) \o "\":"
                                     \o JSONStringify(Head(entries).value[1]))

JSONItems(items) ==
    IF items = << >>
    THEN ""
    ELSE (IF Head(items) = Undefined THEN "null" ELSE JSONStringify(Head(items)[1]))
         \o (IF Len(items) > 1 THEN "," ELSE "")
         \o JSONItems(Tail(items))

---------------------------------------------------------------------------
(* new URL(input, base) and url.toString(): the URL parser and serialiser  *)
(* of Node 20 (Ada), which follow the URL Standard but for the three       *)
(* departures marked below.  The input is ASCII, the scheme is not file,   *)
(* and a domain is ASCII once it is percent-decoded and has no label that  *)
(* starts with xn--.  A parser returns << >> for failure.                  *)

SpecialSchemes == {"http", "https", "ws", "wss", "ftp"}

\* The default port of a special scheme.
DefaultPort(scheme) ==
    CASE scheme \in {"http", "ws"} -> "80"
      [] scheme \in {"https", "wss"} -> "443"
      [] scheme = "ftp" -> "21"
      [] OTHER -> ""

\* The percent-encode sets, among the characters a string can hold here.
C0ControlSet == {"\t", "\n", "\f", "\r"}

FragmentSet == C0ControlSet \cup {" ", "\"", "<", ">", GraveAccent}

QuerySet == C0ControlSet \cup {" ", "\"", "#", "<", ">"}

SpecialQuerySet == QuerySet \cup {"'"}

PathSet == QuerySet \cup {"?", GraveAccent, "{", "}"}

UserinfoSet == PathSet \cup {"/", ":", ";", "=", "@", "[", "\\", "]", "^", "|"}

ForbiddenHostSet ==
    {"\t", "\n", "\r", " ", "#", "/", ":", "<", ">", "?", "@", "[", "\\", "]", "^", "|"}

ForbiddenDomainSet == ForbiddenHostSet \cup C0ControlSet \cup {"%"}

\* str with every character of the set cs percent-encoded.
RECURSIVE UTF8PercentEncode(_, _)
UTF8PercentEncode(str, cs) ==
    IF str = ""
    THEN ""
    ELSE (IF Head(str) \in cs THEN PercentEncode(Head(str)) ELSE Head(str))
         \o UTF8PercentEncode(Tail(str), cs)

\* str without the characters of the set cs.
RECURSIVE Remove(_, _)
Remove(str, cs) ==
    IF str = ""
    THEN ""
    ELSE (IF Head(str) \in cs THEN "" ELSE Head(str)) \o Remove(Tail(str), cs)

\* The parts of str between the characters of the set cs.
RECURSIVE Split(_, _)
Split(str, cs) ==
    LET k == FirstIn(str, 1, cs)
    IN  IF k > Len(str)
        THEN <<str>>
        ELSE <<SubSeq(str, 1, k - 1)>> \o Split(From(str, k + 1), cs)

\* The parts, with the separator sep between them.
RECURSIVE Join(_, _)
Join(parts, sep) ==
    IF parts = << >> THEN ""
    ELSE IF Len(parts) = 1 THEN Head(parts)
    ELSE Head(parts) \o sep \o Join(Tail(parts), sep)

\* The last position of the character c in str, 0 when it is not there.
RECURSIVE LastIndexOf(_, _, _)
LastIndexOf(str, c, i) ==
    IF i < 1 \/ CharAt(str, i) = c THEN i ELSE LastIndexOf(str, c, i - 1)

\* The first position from i on where str holds sub, 0 when it does not.
RECURSIVE Find(_, _, _)
Find(str, sub, i) ==
    IF i + Len(sub) - 1 > Len(str) THEN 0
    ELSE IF SubSeq(str, i, i + Len(sub) - 1) = sub THEN i
    ELSE Find(str, sub, i + 1)

\* The position of the colon that ends the scheme str starts with, 0 when it
\* starts with none.
SchemeEnd(str) ==
    LET k == FirstNotIn(str, 1, AsciiAlphanumeric \cup {"+", "-", "."})
    IN  IF /\ str # ""
           /\ Head(str) \in AsciiAlphanumeric \ Digits
           /\ k <= Len(str)
           /\ CharAt(str, k) = ":"
        THEN k
        ELSE 0

URLRecord(scheme, username, password, host, port, path, query, fragment, opaque) ==
    [scheme |-> scheme, username |-> username, password |-> password,
     host |-> host,          \* << >> is the null host
     port |-> port,          \* "" is the null port
     path |-> path,          \* the segments; the one string of an opaque path
     query |-> query, fragment |-> fragment, opaque |-> opaque]

\* The slashes that separate the parts of a URL of that kind.
Slashes(special) == IF special THEN {"/", "\\"} ELSE {"/"}

\* The URL's path without its last segment.  The first `kept` segments
\* stay: none of a list of segments, the one before the first slash of an
\* opaque path.
ShortenPath(path, kept) ==
    IF Len(path) > kept THEN SubSeq(path, 1, Len(path) - 1) ELSE path

\* The path state: the segments segs follow the path so far.  Departure
\* from the URL Standard: a double-dot segment that is the last one leaves
\* no empty segment behind when the URL is not special and there was
\* nothing to remove (foo:/.. is foo:, not foo:/).
RECURSIVE PathState(_, _, _, _)
PathState(segs, path, special, kept) ==
    IF segs = << >>
    THEN path
    ELSE LET seg  == Head(segs)
             last == Len(segs) = 1
         IN  PathState(Tail(segs),
                       IF ToLowerCase(seg) \in {"..", ".%2e", "%2e.", "%2e%2e"}
                       THEN ShortenPath(path, kept)
                            \o (IF last /\ (special \/ Len(path) > kept)
                                THEN <<"">>
                                ELSE << >>)
                       ELSE IF ToLowerCase(seg) \in {".", "%2e"}
                       THEN path \o (IF last THEN <<"">> ELSE << >>)
                       ELSE Append(path, UTF8PercentEncode(seg, PathSet)),
                       special, kept)

\* The query and the fragment of the reference str, which holds them after
\* its first ? and its first #.
QueryOf(str, special) ==
    LET h == FirstIn(str, 1, {"#"})
        q == FirstIn(str, 1, {"?", "#"})
    IN  IF q > Len(str) \/ CharAt(str, q) = "#"
        THEN Undefined
        ELSE Some(UTF8PercentEncode(SubSeq(str, q + 1, h - 1),
                                    IF special THEN SpecialQuerySet ELSE QuerySet))

FragmentOf(str) ==
    LET h == FirstIn(str, 1, {"#"})
    IN  IF h > Len(str)
        THEN Undefined
        ELSE Some(UTF8PercentEncode(From(str, h + 1), FragmentSet))

\* The path start state on str, the rest of the input, for the URL u whose
\* path so far is path: the path, the query and the fragment are set.
PathStartState(u, str, path, special) ==
    LET q       == FirstIn(str, 1, {"?", "#"})
        pathStr == SubSeq(str, 1, q - 1)
        rest    == IF pathStr # "" /\ Head(pathStr) \in Slashes(special)
                   THEN Tail(pathStr)
                   ELSE pathStr
    IN  [u EXCEPT !.path = IF pathStr = "" /\ ~special
                           THEN path
                           ELSE PathState(Split(rest, Slashes(special)), path, special, 0),
                  !.query = QueryOf(str, special),
                  !.fragment = FragmentOf(str)]

\* The string holds nothing but hexadecimal digits.
IsHex(str) == \A k \in 1..Len(str) : HexValue(CharAt(str, k)) >= 0

\* The value of a string of hexadecimal digits.
RECURSIVE HexNumber(_)
HexNumber(str) ==
    IF str = ""
    THEN 0
    ELSE 16 * HexNumber(SubSeq(str, 1, Len(str) - 1)) + HexValue(CharAt(str, Len(str)))

\* n in hexadecimal digits, the letters in lower case.
RECURSIVE ToHex(_)
ToHex(n) ==
    IF n < 16
    THEN CharAt("0123456789abcdef", n + 1)
    ELSE ToHex(n \div 16) \o CharAt("0123456789abcdef", (n % 16) + 1)

\* One of the four numbers of an IPv4 address at the end of an IPv6
\* address: decimal digits without a leading zero, up to 255.
IsIPv4Piece(str) ==
    /\ Len(str) \in 1..3
    /\ IsDigits(str)
    /\ Len(str) = 1 \/ Head(str) # "0"
    /\ DecimalValue(str) <= 255

\* The parts of str between the characters c, none when it is empty.
Parts(str, c) == IF str = "" THEN << >> ELSE Split(str, {c})

\* The eight pieces of an IPv6 address: the hexadecimal pieces hex, of which
\* the first `head` stand before the double colon when there is one, and
\* the four numbers of the IPv4 address that ends it when there are any.
IPv6Address(hex, numbers, head, compressed) ==
    LET count  == Len(hex) + IF numbers = << >> THEN 0 ELSE 2
        first  == IF compressed THEN head ELSE count
        values == [k \in 1..Len(hex) |-> HexNumber(hex[k])]
                  \o (IF numbers = << >>
                      THEN << >>
                      ELSE <<256 * DecimalValue(numbers[1]) + DecimalValue(numbers[2]),
                             256 * DecimalValue(numbers[3]) + DecimalValue(numbers[4])>>)
    IN  IF \/ \E k \in 1..Len(hex) : Len(hex[k]) \notin 1..4 \/ ~IsHex(hex[k])
           \/ /\ numbers # << >>
              /\ \/ Len(numbers) # 4
                 \/ \E k \in 1..Len(numbers) : ~IsIPv4Piece(numbers[k])
           \/ IF compressed THEN count > 7 ELSE count # 8
        THEN Undefined
        ELSE Some(SubSeq(values, 1, first)
                  \o [k \in 1..(8 - count) |-> 0]
                  \o SubSeq(values, first + 1, Len(values)))

\* The pieces written before and after the double colon.  The last of them
\* may be an IPv4 address, which stands for two pieces.
IPv6Written(before, after, compressed) ==
    LET parts  == before \o after
        last   == IF parts = << >> THEN "" ELSE parts[Len(parts)]
        dotted == /\ IndexOf(last, ".") # 0
                  /\ ~compressed \/ after # << >>
    IN  IPv6Address(IF dotted THEN SubSeq(parts, 1, Len(parts) - 1) ELSE parts,
                    IF dotted THEN Split(last, {"."}) ELSE << >>,
                    Len(before), compressed)

\* The IPv6 parser, on what is between the brackets: the eight pieces of
\* the address.  A double colon stands for the pieces that are left out.
IPv6Parser(str) ==
    LET compress == Find(str, "::", 1)
    IN  IPv6Written(Parts(IF compress = 0 THEN str ELSE SubSeq(str, 1, compress - 1), ":"),
                    Parts(IF compress = 0 THEN "" ELSE From(str, compress + 2), ":"),
                    compress # 0)

\* How many pieces from position i on are 0 in a row.
RECURSIVE ZeroRun(_, _)
ZeroRun(pieces, i) ==
    IF i > Len(pieces) \/ pieces[i] # 0 THEN 0 ELSE 1 + ZeroRun(pieces, i + 1)

\* The pieces from position i on as the serialiser writes them, the run of
\* `length` zeros at position `compress` as a double colon.
RECURSIVE IPv6Pieces(_, _, _, _)
IPv6Pieces(pieces, i, compress, length) ==
    IF i > Len(pieces)
    THEN ""
    ELSE IF i = compress
    THEN (IF i = 1 THEN "::" ELSE ":") \o IPv6Pieces(pieces, i + length, compress, length)
    ELSE ToHex(pieces[i]) \o (IF i < Len(pieces) THEN ":" ELSE "")
         \o IPv6Pieces(pieces, i + 1, compress, length)

\* The address with the first of its runs of `longest` zero pieces
\* compressed, when that is two pieces or more.
IPv6Compressed(pieces, longest) ==
    IPv6Pieces(pieces, 1,
               IF longest < 2
               THEN 0
               ELSE CHOOSE i \in 1..8 :
                       /\ ZeroRun(pieces, i) = longest
                       /\ \A j \in 1..(i - 1) : ZeroRun(pieces, j) < longest,
               longest)

\* The IPv6 serialiser: the first of the longest runs of two or more zero
\* pieces is compressed.
IPv6Serializer(pieces) ==
    IPv6Compressed(pieces,
                   CHOOSE n \in 0..8 :
                      /\ \E i \in 1..8 : ZeroRun(pieces, i) = n
                      /\ \A i \in 1..8 : ZeroRun(pieces, i) <= n)

\* The number `before` with one more digit in that radix.  A number is kept
\* as its two 16-bit halves, and whether it is past 32 bits.
WithDigit(before, radix, digit) ==
    LET lo == before.lo * radix + digit
        hi == before.hi * radix + lo \div 65536
    IN  [hi |-> hi % 65536, lo |-> lo % 65536, over |-> before.over \/ hi >= 65536]

\* The number the digits stand for in that radix.
RECURSIVE InRadix(_, _)
InRadix(digits, radix) ==
    IF digits = ""
    THEN [hi |-> 0, lo |-> 0, over |-> FALSE]
    ELSE WithDigit(InRadix(SubSeq(digits, 1, Len(digits) - 1), radix), radix,
                   HexValue(CharAt(digits, Len(digits))))

\* The number, when its digits are of that radix.  A number of more than
\* eleven digits after its zeros is past 32 bits in every radix.
RadixNumber(digits, radix) ==
    IF \E k \in 1..Len(digits) : HexValue(CharAt(digits, k)) \notin 0..(radix - 1)
    THEN Undefined
    ELSE IF Len(digits) - FirstNotIn(digits, 1, {"0"}) + 1 > 11
    THEN Some([hi |-> 0, lo |-> 0, over |-> TRUE])
    ELSE Some(InRadix(From(digits, FirstNotIn(digits, 1, {"0"})), radix))

\* The IPv4 number parser: 0x starts a hexadecimal number, another 0 an
\* octal one.
IPv4NumberParser(str) ==
    IF str = ""
    THEN Undefined
    ELSE IF Len(str) >= 2 /\ SubSeq(str, 1, 2) \in {"0x", "0X"}
    THEN RadixNumber(From(str, 3), 16)
    ELSE IF Len(str) >= 2 /\ Head(str) = "0"
    THEN RadixNumber(Tail(str), 8)
    ELSE RadixNumber(str, 10)

\* The parts of a domain between its dots, without the empty part a last
\* dot leaves.
DomainParts(str) ==
    LET parts == Split(str, {"."})
    IN  IF parts[Len(parts)] = "" /\ Len(parts) > 1
        THEN SubSeq(parts, 1, Len(parts) - 1)
        ELSE parts

\* The part is a number, or digits that are none (08).
NumberLike(part) ==
    /\ part # ""
    /\ IsDigits(part) \/ IPv4NumberParser(part) # Undefined

\* The last of the parts.
LastPart(parts) == parts[Len(parts)]

\* The ends-in-a-number checker.
EndsInANumber(str) == NumberLike(LastPart(DomainParts(str)))

\* The address of the numbers of its parts, of which there are n.  Every
\* number but the last is one octet, the last one fills the octets that
\* remain.
IPv4Address(numbers, n) ==
    IF \/ n > 4
       \/ \E k \in 1..n : numbers[k] = Undefined
    THEN Undefined
    ELSE IF \/ \E k \in 1..n : numbers[k][1].over
            \/ \E k \in 1..(n - 1) : numbers[k][1].hi # 0 \/ numbers[k][1].lo > 255
            \/ n \in 2..3 /\ numbers[n][1].hi >= 2 ^ (8 * (3 - n))
            \/ n = 4 /\ (numbers[n][1].hi # 0 \/ numbers[n][1].lo > 255)
    THEN Undefined
    ELSE Some([o \in 1..4 |->
                 IF o < n
                 THEN numbers[o][1].lo
                 ELSE CASE o = 1 -> numbers[n][1].hi \div 256
                        [] o = 2 -> numbers[n][1].hi % 256
                        [] o = 3 -> numbers[n][1].lo \div 256
                        [] o = 4 -> numbers[n][1].lo % 256])

\* The numbers of the parts.
IPv4Numbers(parts) == [k \in 1..Len(parts) |-> IPv4NumberParser(parts[k])]

\* The IPv4 parser: the four octets of the address.
IPv4Parser(str) == IPv4Address(IPv4Numbers(DomainParts(str)), Len(DomainParts(str)))

\* The IPv4 serialiser.
IPv4Serializer(address) ==
    ToString(address[1]) \o "." \o ToString(address[2]) \o "."
    \o ToString(address[3]) \o "." \o ToString(address[4])

\* The codes of the ASCII characters a domain may hold once it is
\* percent-decoded: not a control, not the delete character.
DomainBytes == 32..126

\* The host an address is, failure when there is none.
IPv4Host(address) ==
    IF address = Undefined THEN Undefined ELSE Some(IPv4Serializer(address[1]))

IPv6Host(address) ==
    IF address = Undefined
    THEN Undefined
    ELSE Some("[" \o IPv6Serializer(address[1]) \o "]")

\* The host a decoded domain is: an IPv4 address when it ends in a number.
DomainHost(domain) ==
    IF domain = "" \/ FirstIn(domain, 1, ForbiddenDomainSet) <= Len(domain)
    THEN Undefined
    ELSE IF EndsInANumber(domain)
    THEN IPv4Host(IPv4Parser(domain))
    ELSE Some(domain)

\* The domain of those bytes, failure when one of them is a forbidden
\* control or delete character.
DecodedDomain(bytes) ==
    IF \A k \in 1..Len(bytes) : bytes[k] \in DomainBytes
    THEN DomainHost(ToLowerCase(FromCharCodes(bytes)))
    ELSE Undefined

\* The host parser of a special URL on what is not in brackets: the domain
\* is percent-decoded and put in lower case.
DomainParser(str) == DecodedDomain(PercentDecode(str))

\* The host parser.
HostParser(str, special) ==
    IF str # "" /\ Head(str) = "["
    THEN IF CharAt(str, Len(str)) # "]" \/ Len(str) < 2
         THEN Undefined
         ELSE IPv6Host(IPv6Parser(SubSeq(str, 2, Len(str) - 1)))
    ELSE IF ~special
    THEN IF FirstIn(str, 1, ForbiddenHostSet) <= Len(str)
         THEN Undefined
         ELSE Some(UTF8PercentEncode(str, C0ControlSet))
    ELSE DomainParser(str)

\* The port state: the port as the URL keeps it ("" for none or for the
\* default port of the scheme), failure when it is not a number up to 65535.
PortState(str, scheme) ==
    LET digits == From(str, FirstNotIn(str, 1, {"0"}))
        number == IF digits = "" THEN "0" ELSE digits
    IN  IF str = ""
        THEN Some("")
        ELSE IF ~IsDigits(str) \/ Len(number) > 5
        THEN Undefined
        ELSE IF DecimalValue(number) > 65535
        THEN Undefined
        ELSE IF number = DefaultPort(scheme)
        THEN Some("")
        ELSE Some(number)

\* The URL of that scheme, userinfo, host and port, and of what the path
\* start state makes of rest, the input after the authority.
AuthorityURL(scheme, userinfo, host, port, rest, special) ==
    LET colon == FirstIn(userinfo, 1, {":"})
    IN  IF host = Undefined \/ port = Undefined
        THEN Undefined
        ELSE Some(PathStartState(
                 URLRecord(scheme,
                           UTF8PercentEncode(SubSeq(userinfo, 1, colon - 1), UserinfoSet),
                           UTF8PercentEncode(From(userinfo, colon + 1), UserinfoSet),
                           host, port[1], << >>, Undefined, Undefined, FALSE),
                 rest, << >>, special))

\* The host state and the port state on hostport, what the authority holds
\* after its userinfo.  A colon inside brackets, or after a bracket that is
\* not closed, does not start the port.
HostState(scheme, userinfo, credentials, hostport, rest, special) ==
    LET bracket == IF hostport # "" /\ Head(hostport) = "["
                   THEN FirstIn(hostport, 1, {"]"})
                   ELSE 0
        portAt  == IF bracket > Len(hostport)
                   THEN bracket
                   ELSE FirstIn(hostport, bracket + 1, {":"})
    IN  IF portAt = 1 /\ (special \/ credentials \/ portAt <= Len(hostport))
        THEN Undefined
        ELSE AuthorityURL(scheme, userinfo,
                          HostParser(SubSeq(hostport, 1, portAt - 1), special),
                          PortState(From(hostport, portAt + 1), scheme),
                          rest, special)

\* The authority with its userinfo, which ends at its last @.
UserinfoState(scheme, authority, rest, special) ==
    LET at == LastIndexOf(authority, "@", Len(authority))
    IN  HostState(scheme, SubSeq(authority, 1, at - 1), at > 0,
                  From(authority, at + 1), rest, special)

\* The authority state and what follows it, on str, the input after the
\* slashes that follow the scheme.
AuthorityState(scheme, str, special) ==
    LET end == FirstIn(str, 1, Slashes(special) \cup {"?", "#"})
    IN  UserinfoState(scheme, SubSeq(str, 1, end - 1), From(str, end), special)

\* The path state on a base whose path is opaque: the segments of the
\* reference follow the opaque path, which stays one string.
OpaquePathState(base, str) ==
    LET q    == FirstIn(str, 1, {"?", "#"})
        kept == Split(base.path[1], {"/"})
    IN  [base EXCEPT !.path = <<Join(PathState(Split(SubSeq(str, 1, q - 1), {"/"}),
                                               ShortenPath(kept, 1), FALSE, 1),
                                     "/")>>,
                     !.query = QueryOf(str, FALSE),
                     !.fragment = FragmentOf(str)]

\* The relative state and the relative slash state: the reference str is
\* resolved against the URL base.  Departure from the URL Standard: a
\* reference that has no path and no query takes the query of the base
\* unless that query is empty (http://a.com? gives http://a.com/).
RelativeState(str, base) ==
    LET special == base.scheme \in SpecialSchemes
        bare    == [base EXCEPT !.path = << >>, !.query = Undefined,
                                !.fragment = Undefined, !.opaque = FALSE]
        ref     == SubSeq(str, 1, FirstIn(str, 1, {"#"}) - 1)
    IN  IF ref = ""
        THEN Some([base EXCEPT !.query = IF base.query = Some("")
                                         THEN Undefined
                                         ELSE base.query,
                               !.fragment = FragmentOf(str)])
        ELSE IF Head(ref) \in Slashes(special)
        THEN IF Len(ref) > 1 /\ CharAt(ref, 2) \in Slashes(special)
             THEN AuthorityState(base.scheme,
                                 IF special
                                 THEN From(str, FirstNotIn(str, 1, Slashes(special)))
                                 ELSE From(str, 3),
                                 special)
             ELSE Some(PathStartState(bare, str, << >>, special))
        ELSE IF Head(ref) = "?"
        THEN Some([base EXCEPT !.query = QueryOf(str, special),
                               !.fragment = FragmentOf(str)])
        ELSE IF base.opaque
        THEN Some(OpaquePathState(base, str))
        ELSE Some(PathStartState(bare, str, ShortenPath(base.path, 0), special))

\* The states that follow a scheme: rest is the input after its colon.
SchemeState(scheme, rest, base) ==
    LET special == scheme \in SpecialSchemes
        q       == FirstIn(rest, 1, {"?", "#"})
    IN  IF /\ special
           /\ base # Undefined
           /\ base[1].scheme = scheme
           /\ ~StartsWith(rest, "//")
        THEN RelativeState(rest, base[1])
        ELSE IF special \/ StartsWith(rest, "//")
        THEN AuthorityState(scheme,
                            IF special
                            THEN From(rest, FirstNotIn(rest, 1, Slashes(special)))
                            ELSE From(rest, 3),
                            special)
        ELSE IF StartsWith(rest, "/")
        THEN Some(PathStartState(URLRecord(scheme, "", "", Undefined, "", << >>,
                                           Undefined, Undefined, FALSE),
                                 rest, << >>, special))
        ELSE Some(URLRecord(scheme, "", "", Undefined, "",
                            <<UTF8PercentEncode(SubSeq(rest, 1, q - 1), C0ControlSet)>>,
                            QueryOf(rest, special), FragmentOf(rest), TRUE))

\* The scheme start state and the no scheme state on str, whose scheme ends
\* at position end when it has one.  Departure from the URL Standard:
\* against a base whose path is opaque, a reference that has a fragment
\* after something else is resolved as against any other base (foo:opaque
\* and /a#f give foo:/a#f); the Standard has it fail, as a reference
\* without a fragment does.
SchemeStartState(str, end, base) ==
    IF end > 0
    THEN SchemeState(ToLowerCase(SubSeq(str, 1, end - 1)), From(str, end + 1), base)
    ELSE IF base = Undefined
    THEN Undefined
    ELSE IF base[1].opaque /\ IndexOf(str, "#") = 0
    THEN Undefined
    ELSE RelativeState(str, base[1])

\* The parser on str, the input once it is stripped.
Stripped(str, base) == SchemeStartState(str, SchemeEnd(str), base)

\* The basic URL parser on input with the optional URL base: leading and
\* trailing spaces and controls are stripped, tabs and newlines removed.
BasicURLParser(input, base) == Stripped(Remove(Trim(input), {"\t", "\n", "\r"}), base)

\* The URL parser on input against a base that was parsed.
ParsedAgainst(input, base) ==
    IF base = Undefined THEN Undefined ELSE BasicURLParser(input, base)

\* new URL(input, base): the URL, or failure, for which the constructor
\* throws a TypeError.
URL(input, base) == ParsedAgainst(input, BasicURLParser(base, Undefined))

\* The path of a URL as the serialiser writes it.
RECURSIVE PathSerializer(_)
PathSerializer(path) ==
    IF path = << >> THEN "" ELSE "/" \o Head(path) \o PathSerializer(Tail(path))

\* url.toString(): the URL serialiser.  A path that starts with an empty
\* segment would read as a host after the scheme: /. is written before it.
URLSerializer(u) ==
    u.scheme \o ":"
    \o (IF u.host = Undefined
        THEN IF ~u.opaque /\ Len(u.path) > 1 /\ u.path[1] = "" THEN "/." ELSE ""
        ELSE "//"
             \o (IF u.username = "" /\ u.password = ""
                 THEN ""
                 ELSE u.username
                      \o (IF u.password = "" THEN "" ELSE ":" \o u.password)
                      \o "@")
             \o u.host[1]
             \o (IF u.port = "" THEN "" ELSE ":" \o u.port))
    \o (IF u.opaque THEN u.path[1] ELSE PathSerializer(u.path))
    \o (IF u.query = Undefined THEN "" ELSE "?" \o u.query[1])
    \o (IF u.fragment = Undefined THEN "" ELSE "#" \o u.fragment[1])

---------------------------------------------------------------------------
(* http.ts: what fetch() is called with. *)

\* The URL u after url.searchParams.set(key, String(value)) for every entry
\* of params that is set: the query is the serialisation of the pairs.  A
\* URL none is set on keeps its query.
WithSearchParams(u, params) ==
    IF \A k \in 1..Len(params) : ~IsSet(params[k])
    THEN u
    ELSE [u EXCEPT !.query =
            Some(SerializeParams(
                SearchParams(params,
                             IF u.query = Undefined
                             THEN << >>
                             ELSE ParsePairs(Split(u.query[1], {"&"})))))]

\* The TypeError new URL() throws.
InvalidURL == [name |-> "TypeError", message |-> "Invalid URL"]

\* this.headers(), and the headers upload builds for itself.
Headers(m, key) ==
    IF m = "upload"
    THEN [Authorization |-> "Bearer " \o key,
          UserAgent |-> "leanvox-node/" \o SDK_VERSION]
    ELSE [Authorization |-> "Bearer " \o key,
          ContentType |-> "application/json",
          UserAgent |-> "leanvox-node/" \o SDK_VERSION]

\* Mutant: a retry marks itself in the URL.
RequestOf_MarksRetries(m, u, key, a, n) ==
    [method |-> IF m = "upload" THEN "POST" ELSE a.method,
     url |-> URLSerializer(u) \o (IF n = 0 THEN "" ELSE "#retry"),
     headers |-> Headers(m, key),
     body |-> IF m = "upload"
              THEN a.body
              ELSE IF a.body # Undefined
              THEN Some(JSONStringify(a.body[1]))
              ELSE Undefined]

\* What fetch() is called with in attempt n of a call of m with the
\* arguments a and the URL u: url.toString(), the method, the headers and
\* the body.
RequestOf(m, u, key, a, n) ==
    [method |-> IF m = "upload" THEN "POST" ELSE a.method,
     url |-> URLSerializer(u),
     headers |-> Headers(m, key),
     body |-> IF m = "upload"
              THEN a.body
              ELSE IF a.body # Undefined
              THEN Some(JSONStringify(a.body[1]))
              ELSE Undefined]

\* The delay of each attempt's deadline timer, computed once before the
\* loop: the call's timeoutMs, else this.timeout * 1000 (request, upload)
\* or 120_000 (requestStream).
EffectiveTimeout(m, ms, t) ==
    IF ms # Undefined
    THEN ms[1]
    ELSE IF m = "requestStream" THEN 120000 ELSE t * 1000

\* throw new LeanvoxError("Max retries exceeded", "max_retries", 0)
MaxRetriesExceeded ==
    Throw(LeanvoxError("Max retries exceeded", "max_retries", 0, Undefined), FALSE)

---------------------------------------------------------------------------
(* What the network can answer. *)

\* JSON bodies: an object with an optional `error` object.
ErrorObject(message, code, balance_cents, retry_after) ==
    [message |-> message, code |-> code, balance_cents |-> balance_cents,
     retry_after |-> retry_after]

JsonObject(error, data) == [error |-> error, data |-> data]

Payload == JsonObject(Undefined, Some("payload"))

EmptyObject == JsonObject(Undefined, Undefined)

FullErrorBody ==
    JsonObject(Some(ErrorObject(Some("server said no"), Some("server_code"),
                                Some(100), Some(60))), Undefined)

ErrorStatuses == {400, 401, 402, 404, 418, 429, 500, 502, 503, 504}

RetryAfterValues == {Undefined, Some(Chars001)}

\* What the JSON parser says of an empty body, and of the body <html>.
UnexpectedEnd == "Unexpected end of JSON input"

UnexpectedToken == "Unexpected token '<', \"<html>\" is not valid JSON"

ErrorBodies ==
    {[json |-> Undefined, statusText |-> "", message |-> UnexpectedEnd],
     [json |-> Undefined, statusText |-> "Status Text", message |-> UnexpectedToken],
     [json |-> Some(EmptyObject), statusText |-> "Status Text", message |-> ""],
     [json |-> Some(FullErrorBody), statusText |-> "Status Text", message |-> ""]}

OkResponses ==
    {Response(200, Undefined, TRUE, Some(Payload), "OK", ""),
     Response(200, Undefined, TRUE, Undefined, "OK", UnexpectedToken),
     Response(200, Undefined, FALSE, Undefined, "OK", UnexpectedEnd),
     Response(204, Undefined, FALSE, Undefined, "No Content", UnexpectedEnd)}

ErrorResponses ==
    {Response(s, h, TRUE, b.json, b.statusText, b.message) :
        s \in ErrorStatuses, h \in RetryAfterValues, b \in ErrorBodies}

ConnectionFault == Rejection("ECONNREFUSED")

DeadlineAbort == Rejection("This operation was aborted")

\* The client's timeout (seconds) and the call's timeoutMs: a client of 10
\* seconds whose call gives none, and a client of 30 seconds whose call asks
\* for 5000 ms.
TimeoutSettings ==
    {[timeout |-> 10, timeoutMs |-> Undefined],
     [timeout |-> 30, timeoutMs |-> Some(5000)]}

\* One call for each method of the executor on the default base URL, and a
\* call on a client whose baseUrl is no URL.
PlainInvocations ==
    {[mode |-> "request", baseUrl |-> "api.leanvox.com",
      args |-> CallArgs("GET", "/v1/jobs", << >>, Undefined)],
     [mode |-> "request", baseUrl |-> "https://api.leanvox.com",
      args |-> CallArgs("GET", "/v1/account/usage",
                        <<[key |-> "days", value |-> Some(Num(7))],
                          [key |-> "model", value |-> Some(Str(""))],
                          [key |-> "limit", value |-> Some(Num(10))]>>,
                        Undefined)],
     [mode |-> "requestStream", baseUrl |-> "https://api.leanvox.com",
      args |-> CallArgs("POST", "/v1/tts/stream", << >>,
                        Some(Obj(<<[key |-> "text", value |-> Some(Str("hi"))]>>)))],
     [mode |-> "upload", baseUrl |-> "https://api.leanvox.com",
      args |-> CallArgs("POST", "/v1/files/extract-text", << >>, Some("FormData"))]}

\* The same, a request with a body and no params, and a request whose
\* params need encoding on a base URL with a path.
Invocations ==
    PlainInvocations
    \cup {[mode |-> "request", baseUrl |-> "https://api.leanvox.com",
           args |-> CallArgs("POST", "/v1/billing/checkout", << >>,
                             Some(Obj(<<[key |-> "amount_cents",
                                         value |-> Some(Num(500))]>>)))],
          [mode |-> "request", baseUrl |-> "http://LocalHost:8080/api",
           args |-> CallArgs("GET", "/v1/voices",
                             <<[key |-> "q", value |-> Some(Str("a b&c"))]>>,
                             Undefined)]}

\* A client of the default 30 seconds whose call gives no timeoutMs.
PlainTimeoutSettings == {[timeout |-> 30, timeoutMs |-> Undefined]}

\* Everything one fetch() can settle with (the deadline abort apart).
Outcomes == OkResponses \cup ErrorResponses \cup {ConnectionFault}

\* The narrow set of SpecDeep, which follows long retry chains.
DeepOutcomes ==
    {ConnectionFault,
     Response(200, Undefined, TRUE, Some(Payload), "OK", ""),
     Response(400, Undefined, TRUE, Some(EmptyObject), "Bad Request", ""),
     Response(500, Undefined, TRUE, Some(EmptyObject), "Internal Server Error", ""),
     Response(500, Some(<< >>), TRUE, Some(EmptyObject), "Internal Server Error", ""),
     Response(429, Some(Chars001), TRUE, Some(EmptyObject), "Too Many Requests", ""),
     Response(429, Some(Chars15), TRUE, Undefined, "Too Many Requests", UnexpectedToken),
     Response(429, Some(CharsDate), TRUE, Undefined, "Too Many Requests", UnexpectedToken)}

---------------------------------------------------------------------------
(* The state machine of one executor call. *)

NoResult == [kind |-> "none", value |-> Undefined, error |-> Undefined]

ResultOf(d) == [kind |-> d.kind, value |-> d.value, error |-> d.error]

\* What the log keeps of a settled fetch.
Summary(o) ==
    [status |-> o.status, retryAfter |-> o.retryAfter, body |-> o.hasBody,
     fault |-> IF o.kind = "rejection" THEN o.message ELSE ""]

\* attempt++
NextAttempt(a) == a + 1

\* The handler moves on from the response o without calling response.json()
\* (which reads the body to its end), without response.body.cancel() (which
\* no path calls) and without returning the body to the caller.
LeavesBodyOpen(o, d) ==
    o.kind = "response" /\ o.hasBody /\ ~d.viaBody /\ d.kind # "return"

\* Mutant: a retried attempt's failure is delivered to the caller.
Apply_SurfacesRetries(d) ==
    IF d.kind = "retry"
    THEN /\ pc' = "sleep"
         /\ sleeps' = Append(sleeps, d.delay[1])
         /\ result' = ResultOf(Throw(LeanvoxError("retrying", "retry", 0,
                                                  Undefined), FALSE))
    ELSE /\ pc' = "done"
         /\ result' = ResultOf(d)
         /\ UNCHANGED sleeps

\* Mutant: the call backs off once more before it raises.
Apply_SleepsBeforeRaising(d) ==
    IF d.kind = "retry"
    THEN /\ pc' = "sleep"
         /\ sleeps' = Append(sleeps, d.delay[1])
         /\ UNCHANGED result
    ELSE /\ pc' = "done"
         /\ result' = ResultOf(d)
         /\ sleeps' = IF d.kind = "throw"
                      THEN Append(sleeps, BackoffDelay(attempt))
                      ELSE sleeps

\* The handler's last step: sleep before the next attempt, or end the call.
Apply(d) ==
    IF d.kind = "retry"
    THEN /\ pc' = "sleep"
         /\ sleeps' = Append(sleeps, d.delay[1])
         /\ UNCHANGED result
    ELSE /\ pc' = "done"
         /\ result' = ResultOf(d)
         /\ UNCHANGED sleeps

\* No application of raiseForStatus is under way.
ClassifierAtRest ==
    /\ argStatus = 0
    /\ argBody = Undefined
    /\ thrown = Undefined

\* No HTTPClient with concurrent calls is followed.
ConcurrentAtRest ==
    /\ config = Undefined
    /\ running = << >>

\* No Leanvox constructor is followed.
AuthAtRest ==
    /\ leanvoxOptions = Undefined
    /\ envKey = Undefined
    /\ configFile = Undefined
    /\ constructed = [kind |-> "rest"]

\* No call of Leanvox.generate is under way.
ClientAtRest ==
    /\ method = "none"
    /\ autoAsyncThreshold = 0
    /\ options = Undefined
    /\ gpc = "rest"
    /\ current = Undefined
    /\ observed = << >>
    /\ answers = << >>
    /\ requests = << >>
    /\ pollSleeps = << >>
    /\ generated = NoResult

\* No executor call is followed step by step.
ExecutorAtRest ==
    /\ mode = "request"
    /\ maxRetries = 0
    /\ timeout = 0
    /\ timeoutMs = Undefined
    /\ baseUrl = ""
    /\ apiKey = ""
    /\ args = Undefined
    /\ url = Undefined
    /\ sent = << >>
    /\ attempt = 0
    /\ pc = "rest"
    /\ timer = FALSE
    /\ deadlines = << >>
    /\ calls = << >>
    /\ outcomes = << >>
    /\ bodyReads = 0
    /\ jsonCalls = << >>
    /\ openBodies = 0
    /\ sleeps = << >>
    /\ pending = NoDisposition
    /\ result = NoResult

InitWith(bound, settings, invocations) ==
    /\ \E i \in invocations :
          mode = i.mode /\ args = Some(i.args) /\ baseUrl = i.baseUrl
    /\ maxRetries \in -1..bound
    /\ \E c \in settings : timeout = c.timeout /\ timeoutMs = c.timeoutMs
    /\ apiKey = "lv_live_key"
    /\ url = Undefined
    /\ sent = << >>
    /\ attempt = 0
    /\ pc = "start"
    /\ timer = FALSE
    /\ deadlines = << >>
    /\ calls = << >>
    /\ outcomes = << >>
    /\ bodyReads = 0
    /\ jsonCalls = << >>
    /\ openBodies = 0
    /\ sleeps = << >>
    /\ pending = NoDisposition
    /\ result = NoResult
    /\ ClassifierAtRest
    /\ ClientAtRest
    /\ ConcurrentAtRest
    /\ AuthAtRest

Init == InitWith(MaxRetries, PlainTimeoutSettings, PlainInvocations)

InitDeep == InitWith(MaxRetriesDeep, TimeoutSettings, Invocations)

\* What follows u, what new URL(path, this.baseUrl) gave: the throw when it
\* could not parse, and in request the search params.
Built(u) ==
    IF u = Undefined
    THEN /\ pc' = "done"
         /\ result' = [kind |-> "throw", value |-> Undefined,
                       error |-> Some(InvalidURL)]
         /\ UNCHANGED url
    ELSE /\ pc' = "loop"
         /\ url' = Some(IF mode = "request"
                        THEN WithSearchParams(u[1], args[1].params)
                        ELSE u[1])
         /\ UNCHANGED result

\* request(), requestStream() or upload() up to its loop.
Call ==
    /\ pc = "start"
    /\ Built(URL(args[1].path, baseUrl))
    /\ UNCHANGED <<mode, maxRetries, attempt, timer, calls, outcomes, bodyReads,
                   jsonCalls, openBodies, sleeps, pending>>
    /\ UNCHANGED <<timeout, timeoutMs, deadlines, baseUrl, apiKey, args, sent>>
    /\ UNCHANGED <<classifierVars, clientVars, concurrentVars, authVars>>

\* Mutant: one deadline for the whole call, a second shorter at each retry.
StartAttempt_OuterDeadline ==
    /\ pc = "loop"
    /\ LoopGuard(attempt, maxRetries)
    /\ pc' = "fetch"
    /\ timer' = TRUE
    /\ deadlines' = Append(deadlines,
                           IF deadlines = << >>
                           THEN EffectiveTimeout(mode, timeoutMs, timeout)
                           ELSE deadlines[Len(deadlines)] - 1000)
    /\ sent' = Append(sent, RequestOf(mode, url[1], apiKey, args[1], attempt))
    /\ calls' = Append(calls, attempt)
    /\ UNCHANGED <<mode, maxRetries, attempt, outcomes, bodyReads, jsonCalls,
                   openBodies, sleeps, pending, result>>
    /\ UNCHANGED <<timeout, timeoutMs, baseUrl, apiKey, args, url>>
    /\ UNCHANGED <<classifierVars, clientVars, concurrentVars, authVars>>

\* The loop test passes: arm the deadline timer and call fetch().
StartAttempt ==
    /\ pc = "loop"
    /\ LoopGuard(attempt, maxRetries)
    /\ pc' = "fetch"
    /\ timer' = TRUE
    /\ deadlines' = Append(deadlines, EffectiveTimeout(mode, timeoutMs, timeout))
    /\ sent' = Append(sent, RequestOf(mode, url[1], apiKey, args[1], attempt))
    /\ calls' = Append(calls, attempt)
    /\ UNCHANGED <<mode, maxRetries, attempt, outcomes, bodyReads, jsonCalls,
                   openBodies, sleeps, pending, result>>
    /\ UNCHANGED <<timeout, timeoutMs, baseUrl, apiKey, args, url>>
    /\ UNCHANGED <<classifierVars, clientVars, concurrentVars, authVars>>

\* The loop test fails: the throw after the loop.
LoopExit ==
    /\ pc = "loop"
    /\ ~LoopGuard(attempt, maxRetries)
    /\ Apply(MaxRetriesExceeded)
    /\ UNCHANGED <<mode, maxRetries, attempt, timer, calls, outcomes, bodyReads,
                   jsonCalls, openBodies, pending>>
    /\ UNCHANGED <<timeout, timeoutMs, deadlines, baseUrl, apiKey, args, url, sent>>
    /\ UNCHANGED <<classifierVars, clientVars, concurrentVars, authVars>>

\* Mutant: the catch block does not clear the timer.
Settle_CatchKeepsTheTimer(o) ==
    /\ pc = "fetch"
    /\ timer' = (o.kind = "rejection" /\ o # DeadlineAbort)
    /\ outcomes' = Append(outcomes, Summary(o))
    /\ LET d == Handle(mode, attempt, maxRetries, o)
       IN  /\ openBodies' = IF LeavesBodyOpen(o, d)
                            THEN openBodies + 1
                            ELSE openBodies
           /\ IF d.viaBody
              THEN /\ pc' = "body"
                   /\ pending' = d
                   /\ bodyReads' = bodyReads + 1
                   /\ jsonCalls' = Append(jsonCalls, o.json # Undefined)
                   /\ UNCHANGED <<sleeps, result>>
              ELSE /\ Apply(d)
                   /\ UNCHANGED <<pending, bodyReads, jsonCalls>>
    /\ UNCHANGED <<mode, maxRetries, attempt, calls>>
    /\ UNCHANGED <<timeout, timeoutMs, deadlines, baseUrl, apiKey, args, url, sent>>
    /\ UNCHANGED <<classifierVars, clientVars, concurrentVars, authVars>>

\* fetch() settles with o: clearTimeout, then the handler up to its next
\* await (response.json()), sleep, return or throw.
Settle(o) ==
    /\ pc = "fetch"
    /\ timer' = FALSE
    /\ outcomes' = Append(outcomes, Summary(o))
    /\ LET d == Handle(mode, attempt, maxRetries, o)
       IN  /\ openBodies' = IF LeavesBodyOpen(o, d)
                            THEN openBodies + 1
                            ELSE openBodies
           /\ IF d.viaBody
              THEN /\ pc' = "body"
                   /\ pending' = d
                   /\ bodyReads' = bodyReads + 1
                   /\ jsonCalls' = Append(jsonCalls, o.json # Undefined)
                   /\ UNCHANGED <<sleeps, result>>
              ELSE /\ Apply(d)
                   /\ UNCHANGED <<pending, bodyReads, jsonCalls>>
    /\ UNCHANGED <<mode, maxRetries, attempt, calls>>
    /\ UNCHANGED <<timeout, timeoutMs, deadlines, baseUrl, apiKey, args, url, sent>>
    /\ UNCHANGED <<classifierVars, clientVars, concurrentVars, authVars>>

FetchSettles(o) == Settle(o)

\* The deadline timer fires first: controller.abort() rejects the fetch.
DeadlineFires ==
    /\ timer
    /\ Settle(DeadlineAbort)

\* response.json() settles and the handler finishes.
BodySettles ==
    /\ pc = "body"
    /\ Apply(pending)
    /\ pending' = NoDisposition
    /\ UNCHANGED <<mode, maxRetries, attempt, timer, calls, outcomes, bodyReads,
                   jsonCalls, openBodies>>
    /\ UNCHANGED <<timeout, timeoutMs, deadlines, baseUrl, apiKey, args, url, sent>>
    /\ UNCHANGED <<classifierVars, clientVars, concurrentVars, authVars>>

\* The sleep ends: continue with attempt++.
SleepDone ==
    /\ pc = "sleep"
    /\ attempt' = NextAttempt(attempt)
    /\ pc' = "loop"
    /\ UNCHANGED <<mode, maxRetries, timer, calls, outcomes, bodyReads,
                   jsonCalls, openBodies, sleeps, pending, result>>
    /\ UNCHANGED <<timeout, timeoutMs, deadlines, baseUrl, apiKey, args, url, sent>>
    /\ UNCHANGED <<classifierVars, clientVars, concurrentVars, authVars>>

Next ==
    \/ Call
    \/ StartAttempt
    \/ LoopExit
    \/ \E o \in Outcomes : FetchSettles(o)
    \/ DeadlineFires
    \/ BodySettles
    \/ SleepDone

Spec == Init /\ [][Next]_vars

NextDeep ==
    \/ Call
    \/ StartAttempt
    \/ LoopExit
    \/ \E o \in DeepOutcomes : FetchSettles(o)
    \/ DeadlineFires
    \/ BodySettles
    \/ SleepDone

SpecDeep == InitDeep /\ [][NextDeep]_vars

---------------------------------------------------------------------------
(* raiseForStatus applied to one status and one parsed body. *)

ClassifierStatuses ==
    {200, 204, 400, 401, 402, 403, 404, 418, 429, 500, 502, 503, 504}

\* null, {}, {error: {}}, a full error object, a message alone (the
\* unknown-status test), the kind-specific fields alone, and the body the
\* executor substitutes when response.json() rejects.
ClassifierBodies ==
    {Undefined,
     Some(EmptyObject),
     Some(JsonObject(Some(ErrorObject(Undefined, Undefined, Undefined,
                                      Undefined)), Undefined)),
     Some(FullErrorBody),
     Some(JsonObject(Some(ErrorObject(Some("teapot"), Undefined, Undefined,
                                      Undefined)), Undefined)),
     Some(JsonObject(Some(ErrorObject(Undefined, Undefined, Some(100),
                                      Some(60))), Undefined)),
     Some(JsonObject(Some(ErrorObject(Some(""), Undefined, Undefined,
                                      Undefined)), Undefined))}

InitClassify ==
    /\ argStatus \in ClassifierStatuses
    /\ argBody \in ClassifierBodies
    /\ thrown = Undefined
    /\ ExecutorAtRest
    /\ ClientAtRest
    /\ ConcurrentAtRest
    /\ AuthAtRest

\* raiseForStatus(argStatus, argBody) runs: every path of it throws.
RaiseForStatus ==
    /\ thrown = Undefined
    /\ thrown' = Some(raiseForStatus(argStatus, argBody))
    /\ UNCHANGED <<argStatus, argBody>>
    /\ UNCHANGED <<execVars, clientVars, concurrentVars, authVars>>

NextClassify == RaiseForStatus

SpecClassify == InitClassify /\ [][NextClassify]_vars

---------------------------------------------------------------------------
(* client.ts: Leanvox.generate and generateAsyncAndPoll. *)

\* The server ends the job in time: at most MaxPolls of its answers to the
\* submit and to the fetches carry a job that is still unfinished.
MaxPolls == 3

DEFAULT_AUTO_ASYNC_THRESHOLD == 5000

ASYNC_POLL_INTERVAL == 2000

\* GenerateOptions.  The text is kept by its length, voiceInstructions by
\* its length too, speed and exaggeration in tenths (0.5 is 5, 2.0 is 20).
GenerateOptions(textLen, model, voice, voiceInstructions, format, speed, exaggeration) ==
    [textLen |-> textLen, model |-> model, voice |-> voice,
     voiceInstructions |-> voiceInstructions, format |-> format,
     speed |-> speed, exaggeration |-> exaggeration]

\* The message of the InvalidRequestError validateGenerateParams throws,
\* undefined when it returns.
validateGenerateParams(o) ==
    LET model == Coalesce(o.model, "standard")
    IN  IF o.textLen = 0
        THEN Some("text is required and cannot be empty")
        ELSE IF o.textLen > 10000
        THEN Some("text must be 10,000 characters or fewer")
        ELSE IF model \notin {"standard", "pro", "max"}
        THEN Some("model must be \"standard\", \"pro\", or \"max\"")
        ELSE IF o.speed # Undefined /\ (o.speed[1] < 5 \/ o.speed[1] > 20)
        THEN Some("speed must be between 0.5 and 2.0")
        ELSE IF /\ o.exaggeration # Undefined
                /\ o.exaggeration[1] # 5
                /\ model = "standard"
        THEN Some("exaggeration is only supported on the pro model")
        ELSE IF /\ o.format # Undefined
                /\ ToLowerCase(o.format[1]) \notin {"mp3", "wav"}
        THEN Some("format must be \"mp3\" or \"wav\"")
        ELSE Undefined

\* The message of the InvalidRequestError buildGenerateBody throws,
\* undefined when it returns the body.
buildGenerateBody(o) ==
    LET model   == Coalesce(o.model, "standard")
        hasVI   == o.voiceInstructions # Undefined /\ o.voiceInstructions[1] > 0
        hasVoice == o.voice # Undefined /\ o.voice[1] # ""
    IN  IF model = "max"
        THEN IF ~hasVI
             THEN Some("voice_instructions is required when model is \"max\". "
                       \o "Example: voiceInstructions: \"A warm, confident female narrator\"")
             ELSE IF o.voiceInstructions[1] > 300
             THEN Some("voiceInstructions must be 300 characters or less (got "
                       \o ToString(o.voiceInstructions[1]) \o ")")
             ELSE IF hasVoice
             THEN Some("voice and voiceInstructions are mutually exclusive")
             ELSE Undefined
        ELSE IF hasVI
             THEN Some("voiceInstructions is only supported with model \"max\", not \""
                       \o model \o "\"")
             ELSE Undefined

\* RawJob, the JSON of a job, and Job, what mapJob makes of it.
RawJob(id, status, audio_url, error) ==
    [id |-> id, status |-> status, estimated_seconds |-> Undefined,
     audio_url |-> audio_url, error |-> error]

mapJob(raw) ==
    [id |-> raw.id, status |-> raw.status,
     estimatedSeconds |-> raw.estimated_seconds,
     audioUrl |-> raw.audio_url, error |-> raw.error]

\* RawGenerateResult and makeResult (download and save, which close over
\* raw.audio_url, are left out).
RawGenerateResult(audio_url, model, voice, characters, cost_cents) ==
    [audio_url |-> audio_url, model |-> model, voice |-> voice,
     characters |-> characters, cost_cents |-> cost_cents,
     generated_voice_id |-> Undefined, suggestion |-> Undefined]

makeResult(raw) ==
    [audioUrl |-> raw.audio_url, model |-> raw.model, voice |-> raw.voice,
     characters |-> raw.characters, costCents |-> raw.cost_cents,
     generatedVoiceId |-> raw.generated_voice_id,
     suggestion |-> raw.suggestion]

\* The TypeError of reading a property of undefined, as mapJob and
\* makeResult do when the executor returned undefined (a 204).
TypeError(property) ==
    [name |-> "TypeError",
     message |-> "Cannot read properties of undefined (reading '"
                 \o property \o "')"]

\* Mutant: only pending and processing keep the loop going.
NonTerminal_KnownStatusesOnly(job) ==
    job.status \in {Some("pending"), Some("processing")}

\* Mutant: only a failed job ends the loop.
NonTerminal_OnlyFailedEnds(job) == job.status # Some("failed")

\* Mutant: only a completed job ends the loop.
NonTerminal_OnlyCompletedEnds(job) == job.status # Some("completed")

\* current.status !== "completed" && current.status !== "failed"
NonTerminal(job) == job.status # Some("completed") /\ job.status # Some("failed")

\* Mutant: the result's model defaults to "pro" and its cost is not 0.
Completed_OtherDefaults(job, o) ==
    Return(Some(makeResult(RawGenerateResult(Coalesce(job.audioUrl, ""),
                                             Coalesce(o.model, "pro"),
                                             Coalesce(o.voice, ""),
                                             o.textLen, 1))), FALSE)

\* Mutant: the result's audioUrl is not taken from the job.
Completed_NoAudioUrl(job, o) ==
    Return(Some(makeResult(RawGenerateResult("",
                                             Coalesce(o.model, "standard"),
                                             Coalesce(o.voice, ""),
                                             o.textLen, 0))), FALSE)

\* The return after the loop, for a completed job.
Completed(job, o) ==
    Return(Some(makeResult(RawGenerateResult(Coalesce(job.audioUrl, ""),
                                             Coalesce(o.model, "standard"),
                                             Coalesce(o.voice, ""),
                                             o.textLen, 0))), FALSE)

\* Mutant: the job's error field is not used.
Failed_FixedMessage(job) ==
    Throw(InvalidRequestError("Async job failed", "invalid_request", Undefined),
          FALSE)

\* The throw after the loop, for a failed job.
Failed(job) ==
    Throw(InvalidRequestError(Coalesce(job.error, "Async job failed"),
                              "invalid_request", Undefined), FALSE)

---------------------------------------------------------------------------
(* What one call of generate() meets. *)

TextLengths == {0, 10, 11, 5000, 5001, 10000, 10001}

Thresholds == {10, DEFAULT_AUTO_ASYNC_THRESHOLD}

\* The options other than the text: valid ones, and one for each way
\* validateGenerateParams and buildGenerateBody reject.
OptionVariants ==
    {GenerateOptions(0, Undefined, Undefined, Undefined, Undefined, Undefined, Undefined),
     GenerateOptions(0, Some("pro"), Some("af_heart"), Undefined, Some("MP3"), Some(10), Some(8)),
     GenerateOptions(0, Some("standard"), Undefined, Undefined, Some("wav"), Some(20), Some(5)),
     GenerateOptions(0, Some("max"), Undefined, Some(20), Undefined, Some(5), Undefined),
     GenerateOptions(0, Some("turbo"), Undefined, Undefined, Undefined, Undefined, Undefined),
     GenerateOptions(0, Undefined, Undefined, Undefined, Undefined, Some(4), Undefined),
     GenerateOptions(0, Undefined, Undefined, Undefined, Undefined, Some(21), Undefined),
     GenerateOptions(0, Some("standard"), Undefined, Undefined, Undefined, Undefined, Some(8)),
     GenerateOptions(0, Undefined, Undefined, Undefined, Some("ogg"), Undefined, Undefined),
     GenerateOptions(0, Some("max"), Undefined, Undefined, Undefined, Undefined, Undefined),
     GenerateOptions(0, Some("max"), Undefined, Some(301), Undefined, Undefined, Undefined),
     GenerateOptions(0, Some("max"), Some("af_heart"), Some(20), Undefined, Undefined, Undefined),
     GenerateOptions(0, Some("pro"), Undefined, Some(20), Undefined, Undefined, Undefined)}

OptionsSet ==
    {[v EXCEPT !.textLen = n] : v \in OptionVariants, n \in TextLengths}

LongMp3 == "https://cdn.leanvox.com/long.mp3"

\* The jobs a submit or poll response can carry.
NonTerminalJobs ==
    {RawJob("job_1", Some("pending"), Undefined, Undefined),
     RawJob("job_1", Some("processing"), Undefined, Undefined),
     RawJob("job_2", Some("pending"), Undefined, Undefined),
     RawJob("job_1", Some("queued"), Undefined, Undefined),
     RawJob("job_1", Undefined, Undefined, Undefined)}

TerminalJobs ==
    {RawJob("job_1", Some("completed"), Some(LongMp3), Undefined),
     RawJob("job_1", Some("completed"), Undefined, Undefined),
     RawJob("job_2", Some("completed"), Some(LongMp3), Some("bad text")),
     RawJob("job_1", Some("failed"), Undefined, Some("bad text")),
     RawJob("job_1", Some("failed"), Some(LongMp3), Undefined)}

\* The errors an executor call of the client ends with.
CallErrors ==
    {raiseForStatus(404, Some(EmptyObject)),
     LeanvoxError("Network error: ECONNREFUSED", "network_error", 0, Undefined)}

\* How http.request ends for the caller: the parsed JSON, undefined (a 204),
\* or a raised error.
CallOutcomes(values) ==
    {ResultOf(Return(Some(v), TRUE)) : v \in values}
    \cup {ResultOf(Return(Undefined, FALSE))}
    \cup {ResultOf(Throw(e, TRUE)) : e \in CallErrors}

JobOutcomes == CallOutcomes(NonTerminalJobs \cup TerminalJobs)

\* The runs of at most n answers that carry an unfinished job.
RECURSIVE UnfinishedRuns(_)
UnfinishedRuns(n) ==
    IF n = 0
    THEN {<< >>}
    ELSE UnfinishedRuns(n - 1)
         \cup {Append(run, ResultOf(Return(Some(job), TRUE))) :
                  run \in UnfinishedRuns(n - 1), job \in NonTerminalJobs}

\* What the server answers to the submit and to the fetches that follow it:
\* at most n unfinished jobs, then the answer that ends the poll (a job that
\* has ended, an empty answer or an error).
JobScripts(n) ==
    {run \o <<end>> : run \in UnfinishedRuns(n), end \in CallOutcomes(TerminalJobs)}

\* generate(o) on a client of that threshold goes the asynchronous route.
RoutesAsync(o, threshold) ==
    /\ validateGenerateParams(o) = Undefined
    /\ buildGenerateBody(o) = Undefined
    /\ o.textLen > threshold

SyncOutcomes ==
    CallOutcomes({RawGenerateResult("https://cdn.leanvox.com/a.mp3", "standard",
                                    "af_heart", 10, 1)})

---------------------------------------------------------------------------
(* The state machine of one call of generate(). *)

\* A call of generate() with options of the set `given`, on a client of one
\* of the thresholds, and what the server will answer when the call goes
\* the asynchronous route.
InitGenerateWith(given) ==
    /\ method = "generate"
    /\ autoAsyncThreshold \in Thresholds
    /\ options \in given
    /\ gpc = "start"
    /\ current = Undefined
    /\ observed = << >>
    /\ answers \in IF RoutesAsync(options, autoAsyncThreshold)
                   THEN JobScripts(MaxPolls)
                   ELSE {<< >>}
    /\ requests = << >>
    /\ pollSleeps = << >>
    /\ generated = NoResult
    /\ ExecutorAtRest
    /\ ClassifierAtRest
    /\ ConcurrentAtRest
    /\ AuthAtRest

InitGenerate == InitGenerateWith(OptionsSet)

\* The options that set nothing but the text.
TextOnlyOptions ==
    {GenerateOptions(n, Undefined, Undefined, Undefined, Undefined, Undefined, Undefined) :
        n \in TextLengths}

\* generate() returns or throws d.
Deliver(d) ==
    /\ gpc' = "done"
    /\ generated' = ResultOf(d)

\* new StreamingFormatError()
StreamingFormatError ==
    [InvalidRequestError("Streaming is only supported for MP3 format",
                         "streaming_format_error", Undefined)
       EXCEPT !.name = "StreamingFormatError"]

\* A validation error thrown before the request.
Invalid(message) ==
    Throw(InvalidRequestError(message, "invalid_request", Undefined), FALSE)

\* The executor call `op` is issued and awaited at `at`, unless
\* buildGenerateBody throws.
Issue(op, at) ==
    IF buildGenerateBody(options) # Undefined
    THEN /\ Deliver(Invalid(buildGenerateBody(options)[1]))
         /\ UNCHANGED requests
    ELSE /\ requests' = Append(requests, [op |-> op, id |-> Undefined])
         /\ gpc' = at
         /\ UNCHANGED generated

\* Mutant: a text as long as the threshold goes the async route too.
Generate_RoutesAtThreshold ==
    /\ method = "generate"
    /\ gpc = "start"
    /\ IF validateGenerateParams(options) # Undefined
       THEN /\ Deliver(Invalid(validateGenerateParams(options)[1]))
            /\ UNCHANGED requests
       ELSE IF options.textLen >= autoAsyncThreshold
       THEN Issue("generateAsync", "submit")
       ELSE Issue("generate", "sync")
    /\ UNCHANGED <<method, autoAsyncThreshold, options, current, observed, answers,
                   pollSleeps>>
    /\ UNCHANGED <<execVars, classifierVars, concurrentVars, authVars>>

\* generate(options) up to its first await: validateGenerateParams, the
\* routing by text length, and (in generateAsync, after it validates again)
\* buildGenerateBody and the request.
Generate ==
    /\ method = "generate"
    /\ gpc = "start"
    /\ IF validateGenerateParams(options) # Undefined
       THEN /\ Deliver(Invalid(validateGenerateParams(options)[1]))
            /\ UNCHANGED requests
       ELSE IF options.textLen > autoAsyncThreshold
       THEN Issue("generateAsync", "submit")
       ELSE Issue("generate", "sync")
    /\ UNCHANGED <<method, autoAsyncThreshold, options, current, observed, answers,
                   pollSleeps>>
    /\ UNCHANGED <<execVars, classifierVars, concurrentVars, authVars>>

\* The synchronous request ends with r: makeResult, or the error.
SyncSettles(r) ==
    /\ gpc = "sync"
    /\ IF r.kind = "throw"
       THEN Deliver(r)
       ELSE IF r.value = Undefined
       THEN Deliver(Throw(TypeError("audio_url"), FALSE))
       ELSE Deliver(Return(Some(makeResult(r.value[1])), FALSE))
    /\ UNCHANGED <<method, autoAsyncThreshold, options, current, observed, answers,
                   requests, pollSleeps>>
    /\ UNCHANGED <<execVars, classifierVars, concurrentVars, authVars>>

\* Mutant: the poll interval grows with every cycle.
LoopTest_GrowingInterval(job) ==
    /\ observed' = Append(observed, job.status)
    /\ IF NonTerminal(job)
       THEN /\ pollSleeps' = Append(pollSleeps,
                                    ASYNC_POLL_INTERVAL * (Len(pollSleeps) + 1))
            /\ gpc' = "wait"
            /\ UNCHANGED generated
       ELSE /\ IF job.status = Some("failed")
               THEN Deliver(Failed(job))
               ELSE Deliver(Completed(job, options))
            /\ UNCHANGED pollSleeps

\* Mutant: the loop gives up after two non-terminal jobs.
LoopTest_GivesUp(job) ==
    /\ observed' = Append(observed, job.status)
    /\ IF NonTerminal(job) /\ Len(observed) < 2
       THEN /\ pollSleeps' = Append(pollSleeps, ASYNC_POLL_INTERVAL)
            /\ gpc' = "wait"
            /\ UNCHANGED generated
       ELSE /\ IF job.status # Some("completed")
               THEN Deliver(Failed(job))
               ELSE Deliver(Completed(job, options))
            /\ UNCHANGED pollSleeps

\* The while test on the job just assigned to `current`, and what follows
\* it: the poll sleep, the throw for a failed job, or the result.
LoopTest(job) ==
    /\ observed' = Append(observed, job.status)
    /\ IF NonTerminal(job)
       THEN /\ pollSleeps' = Append(pollSleeps, ASYNC_POLL_INTERVAL)
            /\ gpc' = "wait"
            /\ UNCHANGED generated
       ELSE /\ IF job.status = Some("failed")
               THEN Deliver(Failed(job))
               ELSE Deliver(Completed(job, options))
            /\ UNCHANGED pollSleeps

\* Mutant: the poll loop tries again after a request that raised.
JobArrives_TriesAgain(r) ==
    IF r.kind = "throw"
    THEN /\ gpc' = "wait"
         /\ pollSleeps' = Append(pollSleeps, ASYNC_POLL_INTERVAL)
         /\ current' = IF current = Undefined
                       THEN Some(mapJob(RawJob("job_1", Undefined, Undefined, Undefined)))
                       ELSE current
         /\ UNCHANGED <<observed, generated>>
    ELSE IF r.value = Undefined
    THEN /\ Deliver(Throw(TypeError("id"), FALSE))
         /\ UNCHANGED <<current, observed, pollSleeps>>
    ELSE /\ current' = Some(mapJob(r.value[1]))
         /\ LoopTest(mapJob(r.value[1]))

\* generateAsync or getJob ends with r: the error propagates, or mapJob
\* makes the new `current` and the loop test follows.
JobArrives(r) ==
    IF r.kind = "throw"
    THEN /\ Deliver(r)
         /\ UNCHANGED <<current, observed, pollSleeps>>
    ELSE IF r.value = Undefined
    THEN /\ Deliver(Throw(TypeError("id"), FALSE))
         /\ UNCHANGED <<current, observed, pollSleeps>>
    ELSE /\ current' = Some(mapJob(r.value[1]))
         /\ LoopTest(mapJob(r.value[1]))

\* await this.generateAsync(options) ends with the server's answer.
SubmitSettles ==
    /\ gpc = "submit"
    /\ answers # << >>
    /\ JobArrives(Head(answers))
    /\ answers' = Tail(answers)
    /\ UNCHANGED <<method, autoAsyncThreshold, options, requests>>
    /\ UNCHANGED <<execVars, classifierVars, concurrentVars, authVars>>

\* The poll sleep ends: this.getJob(current.id) is issued.
PollTimerFires ==
    /\ gpc = "wait"
    /\ requests' = Append(requests, [op |-> "getJob", id |-> Some(current[1].id)])
    /\ gpc' = "getJob"
    /\ UNCHANGED <<method, autoAsyncThreshold, options, current, observed, answers,
                   pollSleeps, generated>>
    /\ UNCHANGED <<execVars, classifierVars, concurrentVars, authVars>>

\* await this.getJob(current.id) ends with the server's answer.
GetJobSettles ==
    /\ gpc = "getJob"
    /\ answers # << >>
    /\ JobArrives(Head(answers))
    /\ answers' = Tail(answers)
    /\ UNCHANGED <<method, autoAsyncThreshold, options, requests>>
    /\ UNCHANGED <<execVars, classifierVars, concurrentVars, authVars>>

NextGenerate ==
    \/ Generate
    \/ \E r \in SyncOutcomes : SyncSettles(r)
    \/ SubmitSettles
    \/ PollTimerFires
    \/ GetJobSettles

SpecGenerate == InitGenerate /\ [][NextGenerate]_vars

\* The event loop runs every continuation that is ready (the synchronous
\* start of generate, the setTimeout callback of the poll sleep), and every
\* executor call the client awaits ends.
FairGenerate ==
    /\ WF_vars(Generate)
    /\ WF_vars(PollTimerFires)
    /\ WF_vars(\E r \in SyncOutcomes : SyncSettles(r))
    /\ WF_vars(SubmitSettles)
    /\ WF_vars(GetJobSettles)

SpecGenerateFair ==
    InitGenerateWith(TextOnlyOptions) /\ [][NextGenerate]_vars /\ FairGenerate

---------------------------------------------------------------------------
(* generate, generateAsync and stream, one call of one of them. *)

Methods == {"generate", "generateAsync", "stream"}

\* What http.requestStream ends with for the caller.
StreamOutcomes ==
    {ResultOf(Return(Some([stream |-> "ReadableStream", headers |-> "Headers"]), FALSE))}
    \cup {ResultOf(Throw(e, TRUE)) : e \in CallErrors}

InitMethods ==
    /\ method \in Methods
    /\ autoAsyncThreshold \in Thresholds
    /\ options \in OptionsSet
    /\ gpc = "start"
    /\ current = Undefined
    /\ observed = << >>
    /\ answers \in IF method = "generate" /\ RoutesAsync(options, autoAsyncThreshold)
                   THEN JobScripts(1)
                   ELSE {<< >>}
    /\ requests = << >>
    /\ pollSleeps = << >>
    /\ generated = NoResult
    /\ ExecutorAtRest
    /\ ClassifierAtRest
    /\ ConcurrentAtRest
    /\ AuthAtRest

\* Mutant: generateAsync leaves the validation to the server.
GenerateAsync_NoValidation ==
    /\ method = "generateAsync"
    /\ gpc = "start"
    /\ requests' = Append(requests, [op |-> "generateAsync", id |-> Undefined])
    /\ gpc' = "job"
    /\ UNCHANGED generated
    /\ UNCHANGED <<method, autoAsyncThreshold, options, current, observed, answers,
                   pollSleeps>>
    /\ UNCHANGED <<execVars, classifierVars, concurrentVars, authVars>>

\* generateAsync(options) up to its await: validateGenerateParams,
\* buildGenerateBody and the request.
GenerateAsync ==
    /\ method = "generateAsync"
    /\ gpc = "start"
    /\ IF validateGenerateParams(options) # Undefined
       THEN /\ Deliver(Invalid(validateGenerateParams(options)[1]))
            /\ UNCHANGED requests
       ELSE Issue("generateAsync", "job")
    /\ UNCHANGED <<method, autoAsyncThreshold, options, current, observed, answers,
                   pollSleeps>>
    /\ UNCHANGED <<execVars, classifierVars, concurrentVars, authVars>>

\* The request of generateAsync ends with r: mapJob, or the error.
GenerateAsyncSettles(r) ==
    /\ method = "generateAsync"
    /\ gpc = "job"
    /\ IF r.kind = "throw"
       THEN Deliver(r)
       ELSE IF r.value = Undefined
       THEN Deliver(Throw(TypeError("id"), FALSE))
       ELSE Deliver(Return(Some(mapJob(r.value[1])), FALSE))
    /\ UNCHANGED <<method, autoAsyncThreshold, options, current, observed, answers,
                   requests, pollSleeps>>
    /\ UNCHANGED <<execVars, classifierVars, concurrentVars, authVars>>

\* stream(options) up to its await: validateGenerateParams, the format
\* test, buildGenerateBody and the request.
Stream ==
    /\ method = "stream"
    /\ gpc = "start"
    /\ IF validateGenerateParams(options) # Undefined
       THEN /\ Deliver(Invalid(validateGenerateParams(options)[1]))
            /\ UNCHANGED requests
       ELSE IF ToLowerCase(Coalesce(options.format, "mp3")) # "mp3"
       THEN /\ Deliver(Throw(StreamingFormatError, FALSE))
            /\ UNCHANGED requests
       ELSE Issue("stream", "stream")
    /\ UNCHANGED <<method, autoAsyncThreshold, options, current, observed, answers,
                   pollSleeps>>
    /\ UNCHANGED <<execVars, classifierVars, concurrentVars, authVars>>

\* http.requestStream ends with r: the stream, or the error.
StreamSettles(r) ==
    /\ method = "stream"
    /\ gpc = "stream"
    /\ IF r.kind = "throw"
       THEN Deliver(r)
       ELSE Deliver(Return(Some(r.value[1].stream), FALSE))
    /\ UNCHANGED <<method, autoAsyncThreshold, options, current, observed, answers,
                   requests, pollSleeps>>
    /\ UNCHANGED <<execVars, classifierVars, concurrentVars, authVars>>

NextMethods ==
    \/ Generate
    \/ \E r \in SyncOutcomes : SyncSettles(r)
    \/ SubmitSettles
    \/ PollTimerFires
    \/ GetJobSettles
    \/ GenerateAsync
    \/ \E r \in JobOutcomes : GenerateAsyncSettles(r)
    \/ Stream
    \/ \E r \in StreamOutcomes : StreamSettles(r)

SpecMethods == InitMethods /\ [][NextMethods]_vars

---------------------------------------------------------------------------
(* http.ts: executor calls running at once on one HTTPClient. *)

\* The calls are followed for clients of at most this many retries.
MaxRetriesConcurrent == 1

\* Two callers share the client.
CallIds == {1, 2}

\* options.baseUrl.replace(/\/$/, "")
StripTrailingSlash(str) ==
    IF str # "" /\ CharAt(str, Len(str)) = "/"
    THEN SubSeq(str, 1, Len(str) - 1)
    ELSE str

\* The HTTPClient constructor.
HTTPClient(o) ==
    [baseUrl |-> StripTrailingSlash(o.baseUrl), apiKey |-> o.apiKey,
     timeout |-> o.timeout, maxRetries |-> o.maxRetries]

HTTPClientOptions ==
    [baseUrl : {"https://api.leanvox.com", "https://api.leanvox.com/"},
     apiKey : {"lv_live_key"},
     timeout : {30},
     maxRetries : -1..MaxRetriesConcurrent]

\* What the fetch of a concurrent call can settle with.
ConcurrentOutcomes ==
    {ConnectionFault,
     Response(200, Undefined, TRUE, Some(Payload), "OK", ""),
     Response(400, Undefined, TRUE, Some(EmptyObject), "Bad Request", ""),
     Response(429, Some(Chars15), TRUE, Undefined, "Too Many Requests", UnexpectedToken)}

\* A call that has not been made yet.
NotCalled ==
    [mode |-> "request", attempt |-> 0, pc |-> "idle", timer |-> FALSE,
     fetches |-> 0, outcomes |-> << >>, sleeps |-> << >>,
     pending |-> NoDisposition, result |-> NoResult]

\* The handler's last step on the locals r of a call.
Applied(r, d) ==
    IF d.kind = "retry"
    THEN [r EXCEPT !.pc = "sleep", !.sleeps = Append(@, d.delay[1]),
                   !.pending = NoDisposition]
    ELSE [r EXCEPT !.pc = "done", !.result = ResultOf(d),
                   !.pending = NoDisposition]

InitConcurrent ==
    /\ \E o \in HTTPClientOptions : config = Some(HTTPClient(o))
    /\ running = [c \in CallIds |-> NotCalled]
    /\ ExecutorAtRest
    /\ ClassifierAtRest
    /\ ClientAtRest
    /\ AuthAtRest

\* Caller c calls request, requestStream or upload.
CallStarts(c, m) ==
    /\ running[c].pc = "idle"
    /\ running' = [running EXCEPT ![c] = [@ EXCEPT !.mode = m, !.pc = "loop"]]
    /\ UNCHANGED config
    /\ UNCHANGED <<execVars, classifierVars, clientVars, authVars>>

\* The loop test of call c passes: setTimeout and fetch().
AttemptStarts(c) ==
    /\ running[c].pc = "loop"
    /\ LoopGuard(running[c].attempt, config[1].maxRetries)
    /\ running' = [running EXCEPT ![c] = [@ EXCEPT !.pc = "fetch",
                                                    !.timer = TRUE,
                                                    !.fetches = @ + 1]]
    /\ UNCHANGED config
    /\ UNCHANGED <<execVars, classifierVars, clientVars, authVars>>

\* The loop test of call c fails: the throw after the loop.
LoopEnds(c) ==
    /\ running[c].pc = "loop"
    /\ ~LoopGuard(running[c].attempt, config[1].maxRetries)
    /\ running' = [running EXCEPT ![c] = Applied(@, MaxRetriesExceeded)]
    /\ UNCHANGED config
    /\ UNCHANGED <<execVars, classifierVars, clientVars, authVars>>

\* The locals of a call once its fetch has settled with o.
Settled(r, o) ==
    LET d == Handle(r.mode, r.attempt, config[1].maxRetries, o)
        s == [r EXCEPT !.timer = FALSE, !.outcomes = Append(@, o)]
    IN  IF d.viaBody
        THEN [s EXCEPT !.pc = "body", !.pending = d]
        ELSE Applied(s, d)

\* The fetch of call c settles with o.
FetchEnds(c, o) ==
    /\ running[c].pc = "fetch"
    /\ running' = [running EXCEPT ![c] = Settled(@, o)]
    /\ UNCHANGED config
    /\ UNCHANGED <<execVars, classifierVars, clientVars, authVars>>

\* The deadline timer of call c fires: its controller aborts its fetch.
TimerFires(c) ==
    /\ running[c].timer
    /\ FetchEnds(c, DeadlineAbort)

\* response.json() of call c settles.
BodyEnds(c) ==
    /\ running[c].pc = "body"
    /\ running' = [running EXCEPT ![c] = Applied(@, @.pending)]
    /\ UNCHANGED config
    /\ UNCHANGED <<execVars, classifierVars, clientVars, authVars>>

\* Mutant: `attempt` is a field of the client, which every call increments.
SleepEnds_SharedCounter(c) ==
    /\ running[c].pc = "sleep"
    /\ running' = [e \in CallIds |->
                      IF e = c
                      THEN [running[e] EXCEPT !.attempt = NextAttempt(@),
                                              !.pc = "loop"]
                      ELSE [running[e] EXCEPT !.attempt = NextAttempt(@)]]
    /\ UNCHANGED config
    /\ UNCHANGED <<execVars, classifierVars, clientVars, authVars>>

\* The sleep of call c ends: continue with attempt++.
SleepEnds(c) ==
    /\ running[c].pc = "sleep"
    /\ running' = [running EXCEPT ![c] = [@ EXCEPT !.attempt = NextAttempt(@),
                                                    !.pc = "loop"]]
    /\ UNCHANGED config
    /\ UNCHANGED <<execVars, classifierVars, clientVars, authVars>>

NextConcurrent ==
    \/ \E c \in CallIds, m \in Modes : CallStarts(c, m)
    \/ \E c \in CallIds : AttemptStarts(c)
    \/ \E c \in CallIds : LoopEnds(c)
    \/ \E c \in CallIds, o \in ConcurrentOutcomes : FetchEnds(c, o)
    \/ \E c \in CallIds : TimerFires(c)
    \/ \E c \in CallIds : BodyEnds(c)
    \/ \E c \in CallIds : SleepEnds(c)

SpecConcurrent == InitConcurrent /\ [][NextConcurrent]_vars

---------------------------------------------------------------------------
(* auth.ts and the Leanvox constructor.  An API key is a sequence of        *)
(* one-character strings.                                                  *)

DEFAULT_TIMEOUT == 30

DEFAULT_MAX_RETRIES == 2

DEFAULT_BASE_URL == "https://api.leanvox.com"

VALID_PREFIXES ==
    {<<"l", "v", "_", "l", "i", "v", "e", "_">>,
     <<"l", "v", "_", "t", "e", "s", "t", "_">>}

\* content.split("\n"): the lines of the content, from position i on.
RECURSIVE Lines(_, _)
Lines(content, i) ==
    LET k == FirstIn(content, i, {"\n"})
    IN  IF k > Len(content)
        THEN <<From(content, i)>>
        ELSE <<SubSeq(content, i, k - 1)>> \o Lines(content, k + 1)

\* trimmed.match(/^api_key\s*=\s*["']?([^"'\s]+)["']?/): the group of the
\* match, undefined when the line does not match.
MatchApiKey(trimmed) ==
    LET eq    == FirstNotIn(trimmed, Len("api_key") + 1, WhiteSpace)
        val   == FirstNotIn(trimmed, eq + 1, WhiteSpace)
        start == IF val <= Len(trimmed) /\ CharAt(trimmed, val) \in {"\"", "'"}
                 THEN val + 1
                 ELSE val
        stop  == FirstIn(trimmed, start, {"\"", "'"} \cup WhiteSpace)
    IN  IF /\ StartsWith(trimmed, "api_key")
           /\ eq <= Len(trimmed)
           /\ CharAt(trimmed, eq) = "="
           /\ stop > start
        THEN Some(SubSeq(trimmed, start, stop - 1))
        ELSE Undefined

\* The group of the first line that starts with api_key and matches.
RECURSIVE FirstApiKey(_)
FirstApiKey(lines) ==
    IF lines = << >>
    THEN Undefined
    ELSE LET trimmed == Trim(Head(lines))
         IN  IF /\ StartsWith(trimmed, "api_key")
                /\ MatchApiKey(trimmed) # Undefined
             THEN MatchApiKey(trimmed)
             ELSE FirstApiKey(Tail(lines))

\* readConfigFile on the content of ~/.lvox/config.toml (undefined: no such
\* file, readFileSync throws).
readConfigFile(content) ==
    IF content = Undefined
    THEN Undefined
    ELSE IF FirstApiKey(Lines(content[1], 1)) = Undefined
    THEN Undefined
    ELSE Some(Chars(FirstApiKey(Lines(content[1], 1))[1]))

\* Mutant: the environment variable comes before the explicit key.
resolveApiKey_EnvFirst(explicit, env, content) ==
    IF Truthy(env)
    THEN env
    ELSE IF Truthy(explicit)
    THEN explicit
    ELSE readConfigFile(content)

\* resolveApiKey(explicit), with the environment variable and the config
\* file it reads.
resolveApiKey(explicit, env, content) ==
    IF Truthy(explicit)
    THEN explicit
    ELSE IF Truthy(env)
    THEN env
    ELSE readConfigFile(content)

\* The AuthenticationError validateApiKey throws, undefined when it returns.
validateApiKey(key) ==
    IF key = << >>
    THEN Some(AuthenticationError("API key is required", "invalid_api_key",
                                  Undefined))
    ELSE IF ~ \E prefix \in VALID_PREFIXES : StartsWith(key, prefix)
    THEN Some(AuthenticationError("Invalid API key prefix. Key must start with one of: lv_live_, lv_test_",
                                  "invalid_api_key", Undefined))
    ELSE Undefined

\* ensureApiKey(key): the key it returns, or the error it throws.
ensureApiKey(key) ==
    IF ~Truthy(key)
    THEN [kind |-> "throw",
          error |-> AuthenticationError("No API key found. Pass apiKey to the constructor, set LEANVOX_API_KEY env var, or add to ~/.lvox/config.toml",
                                        "invalid_api_key", Undefined)]
    ELSE IF validateApiKey(key[1]) # Undefined
    THEN [kind |-> "throw", error |-> validateApiKey(key[1])[1]]
    ELSE [kind |-> "return", value |-> key[1]]

\* interface LeanvoxOptions: every field is optional.
LeanvoxOptions(key, base, t, n, threshold) ==
    [apiKey |-> key, baseUrl |-> base, timeout |-> t, maxRetries |-> n,
     autoAsyncThreshold |-> threshold]

\* new Leanvox(o): the error ensureApiKey throws, or the client with its
\* autoAsyncThreshold and its HTTPClient.
Leanvox(o, env, content) ==
    LET ensured == ensureApiKey(resolveApiKey(o.apiKey, env, content))
    IN  IF ensured.kind = "throw"
        THEN ensured
        ELSE [kind |-> "return",
              value |-> [autoAsyncThreshold |-> Coalesce(o.autoAsyncThreshold,
                                                         DEFAULT_AUTO_ASYNC_THRESHOLD),
                         http |-> HTTPClient([baseUrl |-> Coalesce(o.baseUrl, DEFAULT_BASE_URL),
                                              apiKey |-> ensured.value,
                                              timeout |-> Coalesce(o.timeout, DEFAULT_TIMEOUT),
                                              maxRetries |-> Coalesce(o.maxRetries, DEFAULT_MAX_RETRIES)])]]

\* The keys a caller or the environment gives: none, the empty string,
\* valid ones, and ones with a wrong or incomplete prefix.
ApiKeys ==
    {Undefined,
     Some(<< >>),
     Some(<<"l", "v", "_", "l", "i", "v", "e", "_", "a">>),
     Some(<<"l", "v", "_", "t", "e", "s", "t", "_">>),
     Some(<<"s", "k", "_", "l", "i", "v", "e", "_", "a">>),
     Some(<<"l", "v", "_", "l", "i", "v", "e">>)}

EnvKeys ==
    {Undefined,
     Some(<< >>),
     Some(<<"l", "v", "_", "l", "i", "v", "e", "_", "e">>),
     Some(<<"b", "a", "d", "_", "k", "e", "y">>)}

ConfigFiles ==
    {Undefined,
     Some("api_key = \"lv_live_c\""),
     Some("# key\napi_key='bad_key'\n"),
     Some("api_key =\napi_key = lv_test_c"),
     Some("base_url = \"http://localhost:8080\"")}

InitAuth ==
    /\ leanvoxOptions \in {LeanvoxOptions(k, u, t, n, a) :
                               k \in ApiKeys,
                               u \in {Undefined, Some("http://localhost:8080/")},
                               t \in {Undefined, Some(10)},
                               n \in {Undefined, Some(0)},
                               a \in {Undefined, Some(10)}}
    /\ envKey \in EnvKeys
    /\ configFile \in ConfigFiles
    /\ constructed = [kind |-> "none"]
    /\ ExecutorAtRest
    /\ ClassifierAtRest
    /\ ClientAtRest
    /\ ConcurrentAtRest

\* new Leanvox(leanvoxOptions): the constructor throws, or it sets the
\* client's autoAsyncThreshold and its HTTPClient.
Construct ==
    /\ constructed = [kind |-> "none"]
    /\ constructed' = Leanvox(leanvoxOptions, envKey, configFile)
    /\ autoAsyncThreshold' = IF constructed'.kind = "return"
                             THEN constructed'.value.autoAsyncThreshold
                             ELSE autoAsyncThreshold
    /\ UNCHANGED <<leanvoxOptions, envKey, configFile>>
    /\ UNCHANGED <<method, options, gpc, current, observed, answers, requests,
                   pollSleeps, generated>>
    /\ UNCHANGED <<execVars, classifierVars, concurrentVars>>

NextAuth == Construct

SpecAuth == InitAuth /\ [][NextAuth]_vars

---------------------------------------------------------------------------
(* Vocabulary of the properties. *)

Last(q) == q[Len(q)]

Is2xx(status) == status \in 200..299

\* A retryable outcome: a rejection, or a response with a retryable status.
RetryableOutcome(o) == o.status = 0 \/ o.status \in {429, 500, 502, 503, 504}

\* The class each status is classified as.
ClassifiedName(status) ==
    CASE status = 400 -> "InvalidRequestError"
      [] status = 401 -> "AuthenticationError"
      [] status = 402 -> "InsufficientBalanceError"
      [] status = 404 -> "NotFoundError"
      [] status = 429 -> "RateLimitError"
      [] status = 500 -> "ServerError"
      [] OTHER -> "LeanvoxError"

\* The backoff-schedule entry for attempt index i.
ScheduleEntry(i) == Decimal(IF i = 0 THEN 1000 ELSE IF i = 1 THEN 2000 ELSE 4000)

\* Whether the handler of the last settled attempt ends the call, and how:
\* the delivered result, or the one that is due once the body is read.
Ending == pc \in {"body", "done"} /\ (pc = "body" => pending.kind # "retry")

Verdict == IF pc = "body" THEN ResultOf(pending) ELSE result

\* The call goes on after the last settled attempt: it sleeps, or has slept
\* and started the next attempt.
Retrying ==
    \/ pc \in {"sleep", "loop"} /\ Len(sleeps) = Len(outcomes)
    \/ pc = "fetch" /\ Len(sleeps) = Len(outcomes) /\ Len(calls) = Len(outcomes) + 1

AllStatuses(s) == \A i \in 1..Len(outcomes) : outcomes[i].status = s

---------------------------------------------------------------------------
(* C1..C10: the retry loop. *)

\* C1: in request, when the first k attempts end in retryable outcomes and
\* attempt k receives a 2xx response, the call returns after exactly k+1
\* attempts.  (The statement as claimed; the code breaks it for a 2xx
\* response whose body does not parse.)
C1_ReturnsAtFirst2xx ==
    (mode = "request" /\ maxRetries >= 0) =>
        \A k \in 1..Len(outcomes) :
            ( /\ Is2xx(outcomes[k].status)
              /\ \A i \in 1..(k - 1) : RetryableOutcome(outcomes[i]) )
            => /\ Len(calls) = k
               /\ k <= maxRetries + 1
               /\ Len(sleeps) = k - 1
               /\ pc \in {"body", "done"}
               /\ pc = "done" => result.kind = "return"

\* C2: in request, a first response whose status is neither 2xx nor
\* retryable raises the error classified from that status after exactly one
\* attempt and no sleep, whatever maxRetries is.
C2_NonRetryableRaisesAtOnce ==
    ( /\ mode = "request"
      /\ Len(outcomes) >= 1
      /\ outcomes[1].status # 0
      /\ ~Is2xx(outcomes[1].status)
      /\ outcomes[1].status \notin {429, 500, 502, 503, 504} )
    => /\ Len(calls) = 1
       /\ Len(outcomes) = 1
       /\ sleeps = << >>
       /\ Ending
       /\ Verdict.kind = "throw"
       /\ Verdict.error[1].statusCode = outcomes[1].status
       /\ Verdict.error[1].name = ClassifiedName(outcomes[1].status)

C2_Witness ==
    /\ mode = "request"
    /\ maxRetries = 2
    /\ pc = "done"
    /\ Len(calls) = 1
    /\ outcomes[1].status = 404
    /\ result.kind = "throw"
    /\ result.error[1].name = "NotFoundError"

\* C3: in request with maxRetries = n >= 0, when every attempt is answered
\* with the same retryable status s, an attempt is retried iff its index is
\* below n, so there are exactly n+1 attempts, and the call then raises the
\* error classified from the last response, carrying status s.
C3_ExhaustedRaisesLastStatus ==
    ( /\ mode = "request"
      /\ maxRetries >= 0
      /\ Len(outcomes) >= 1
      /\ outcomes[1].status \in {429, 500, 502, 503, 504}
      /\ AllStatuses(outcomes[1].status) )
    => /\ Len(calls) <= maxRetries + 1
       /\ Len(outcomes) <= maxRetries => Retrying
       /\ Len(outcomes) = maxRetries + 1 =>
            /\ Ending
            /\ Len(sleeps) = maxRetries
            /\ Verdict.kind = "throw"
            /\ Verdict.error[1].statusCode = outcomes[1].status
            /\ Verdict.error[1].name = ClassifiedName(outcomes[1].status)
            /\ Verdict.error[1].code \notin {"network_error", "max_retries"}

C3_Witness ==
    /\ mode = "request"
    /\ maxRetries = 2
    /\ pc = "done"
    /\ Len(calls) = 3
    /\ Len(outcomes) = 3
    /\ AllStatuses(500)
    /\ result.kind = "throw"
    /\ result.error[1].name = "ServerError"
    /\ result.error[1].statusCode = 500

\* C4: with maxRetries = n >= 0 and a rejected fetch (connection fault or
\* deadline abort) on every attempt, the call makes exactly n+1 attempts and
\* then raises a LeanvoxError with code network_error, status 0 and the
\* message "Network error: " followed by the last fault's description.
C4_NetworkErrorAfterExhaustion ==
    (maxRetries >= 0 /\ Len(outcomes) >= 1 /\ AllStatuses(0))
    => /\ Len(calls) <= maxRetries + 1
       /\ Len(outcomes) <= maxRetries => Retrying
       /\ Len(outcomes) = maxRetries + 1 =>
            /\ pc = "done"
            /\ Len(sleeps) = maxRetries
            /\ result.kind = "throw"
            /\ result.error[1].name = "LeanvoxError"
            /\ result.error[1].code = "network_error"
            /\ result.error[1].statusCode = 0
            /\ result.error[1].message = "Network error: " \o Last(outcomes).fault

C4_Witness ==
    /\ maxRetries = 1
    /\ pc = "done"
    /\ Len(calls) = 2
    /\ AllStatuses(0)
    /\ result.kind = "throw"
    /\ result.error[1].code = "network_error"
    /\ result.error[1].message = "Network error: ECONNREFUSED"

\* C5: in every state of a call with maxRetries >= 0, in any of the three
\* methods, at most maxRetries+1 attempts were made, the attempts carry the
\* indices 0, 1, 2, ... in order, and a call that has ended made at least one.
\* The last part fails: new URL(path, this.baseUrl) runs ahead of the loop,
\* and when it throws the call has ended without an attempt.
C5_AttemptsBoundedAndOrdered ==
    maxRetries >= 0 =>
        /\ Len(calls) <= maxRetries + 1
        /\ \A i \in 1..Len(calls) : calls[i] = i - 1
        /\ pc = "done" => Len(calls) >= 1

\* What holds of C5: the bound and the order in every call, and the attempt
\* of an ended call once new URL() has returned.
C5_HoldsOnceTheUrlIsBuilt ==
    maxRetries >= 0 =>
        /\ Len(calls) <= maxRetries + 1
        /\ \A i \in 1..Len(calls) : calls[i] = i - 1
        /\ (pc = "done" /\ url # Undefined) => Len(calls) >= 1

\* C6: the raised error depends on the last attempt's outcome alone: after a
\* rejection it is network_error with status 0, after an error-status
\* response it is the error classified from that status, whatever the
\* earlier attempts of the call ended in.
C6_ErrorFromLastOutcome ==
    (pc = "done" /\ result.kind = "throw" /\ Len(outcomes) >= 1) =>
        LET o == Last(outcomes)
            e == result.error[1]
        IN  /\ o.status = 0 =>
                /\ e.name = "LeanvoxError"
                /\ e.code = "network_error"
                /\ e.statusCode = 0
                /\ e.message = "Network error: " \o o.fault
            /\ (o.status # 0 /\ ~Is2xx(o.status)) =>
                /\ e.statusCode = o.status
                /\ e.name = ClassifiedName(o.status)
                /\ e.code # "network_error"

C6_Witness ==
    /\ mode = "request"
    /\ pc = "done"
    /\ Len(outcomes) = 3
    /\ outcomes[1].status = 0
    /\ outcomes[2].status = 0
    /\ outcomes[3].status = 400
    /\ result.kind = "throw"
    /\ result.error[1].name = "InvalidRequestError"
    /\ result.error[1].statusCode = 400

\* C7: in each of the three methods, an attempt that receives a 2xx response
\* ends the call: the success value is returned, no error is raised, and no
\* sleep or further attempt follows, whatever the response's body is.  (The
\* statement as claimed; the code breaks it.)
C7_AnyTwoXXEndsTheCall ==
    \A k \in 1..Len(outcomes) :
        Is2xx(outcomes[k].status)
        => /\ Len(outcomes) = k
           /\ Len(calls) = k
           /\ Len(sleeps) = k - 1
           /\ pc \in {"body", "done"}
           /\ pc = "done" => result.kind = "return"

\* C8: in request, a first response with status 204 makes the call return
\* undefined after exactly one attempt, without response.json() being called.
C8_NoContentReturnsUndefined ==
    (mode = "request" /\ Len(outcomes) >= 1 /\ outcomes[1].status = 204)
    => /\ pc = "done"
       /\ result = ResultOf(Return(Undefined, FALSE))
       /\ Len(calls) = 1
       /\ Len(outcomes) = 1
       /\ sleeps = << >>
       /\ bodyReads = 0

C8_Witness ==
    /\ mode = "request"
    /\ pc = "done"
    /\ Len(calls) = 1
    /\ outcomes[1].status = 204
    /\ result.kind = "return"
    /\ result.value = Undefined

\* C9: the sleep that follows a retried 429 response carrying Retry-After: r
\* is r * 1000 ms (10 ms for "0.01", 1500 ms for "1.5") and not the schedule
\* entry, whatever the attempt index and whichever method makes the call.
\* (The statement as claimed; upload breaks it.)
C9_RetryAfterSetsTheDelay ==
    \A i \in 1..Len(sleeps) :
        outcomes[i].status = 429 =>
            /\ outcomes[i].retryAfter = Some(Chars001) => sleeps[i] = Decimal(10)
            /\ outcomes[i].retryAfter = Some(Chars15) => sleeps[i] = Decimal(1500)

\* The same on request and requestStream alone, which the code keeps.
C9_RequestReadsRetryAfter ==
    mode \in {"request", "requestStream"} => C9_RetryAfterSetsTheDelay

\* C10: the sleep that follows a retried attempt i is the schedule entry for
\* i (1000, 2000, then 4000 for every i >= 2) when the attempt ended in a
\* rejection or in a retryable status without a Retry-After header, also
\* when an earlier response of the call carried the header.
C10_BackoffSchedule ==
    \A i \in 1..Len(sleeps) :
        ( \/ outcomes[i].status = 0
          \/ /\ outcomes[i].status \in {429, 500, 502, 503, 504}
             /\ outcomes[i].retryAfter = Undefined )
        => sleeps[i] = ScheduleEntry(i - 1)

C10_Witness ==
    /\ mode = "request"
    /\ Len(sleeps) = 4
    /\ outcomes[1].status = 429
    /\ outcomes[1].retryAfter = Some(Chars001)
    /\ sleeps[1] = Decimal(10)
    /\ outcomes[2].status = 500
    /\ outcomes[2].retryAfter = Undefined
    /\ sleeps[2] = Decimal(2000)
    /\ outcomes[3].status = 0
    /\ sleeps[3] = Decimal(4000)
    /\ outcomes[4].status = 0
    /\ sleeps[4] = Decimal(4000)

---------------------------------------------------------------------------
(* C11..C14: Retry-After, upload, and the stream handle. *)

\* C11: Retry-After overrides the backoff delay for status 429 only: the
\* sleep that follows a retried 500, 502, 503 or 504 response is the
\* schedule entry for its attempt index, also when that response carries a
\* Retry-After header.  (The statement as claimed; request and requestStream
\* break it.)
C11_RetryAfterFor429Only ==
    \A i \in 1..Len(sleeps) :
        outcomes[i].status \in {500, 502, 503, 504}
        => sleeps[i] = ScheduleEntry(i - 1)


\* What the retry loop of request does with a logged outcome, as C8 and C10
\* establish it: the sleep after retried attempt i is 10 ms when the
\* response carried Retry-After: 0.01 and the schedule entry otherwise, and
\* a 204 ends the call with a return.
SleepsAsRequestDoes ==
    \A i \in 1..Len(sleeps) :
        sleeps[i] = IF outcomes[i].retryAfter = Some(Chars001)
                    THEN Decimal(10)
                    ELSE ScheduleEntry(i - 1)

EndsAsRequestDoes ==
    \A i \in 1..Len(outcomes) :
        outcomes[i].status = 204
        => /\ Len(outcomes) = i
           /\ Len(sleeps) = i - 1
           /\ pc \in {"body", "done"}
           /\ pc = "done" => result.kind = "return"

\* C12: upload has the retry semantics of request: for the same maxRetries
\* and the same outcomes it makes the same attempts, sleeps the same delays
\* and ends the same way, so what holds of request's log holds of upload's.
\* (The statement as claimed; upload breaks it.)
C12_UploadRetriesLikeRequest ==
    mode \in {"request", "upload"} => SleepsAsRequestDoes /\ EndsAsRequestDoes

\* The same law on request alone, which the code keeps.
C12_RequestKeepsItsLaw ==
    mode = "request" => SleepsAsRequestDoes /\ EndsAsRequestDoes


\* C13: requestStream returns a stream handle, with the response headers,
\* only for a last response that has a 2xx status and a body; a call whose
\* last attempt got an error status, a rejection or a 2xx response without
\* a body ends without a handle (it raises).
C13_StreamOnlyFor2xxWithBody ==
    (mode = "requestStream" /\ pc = "done") =>
        LET gotStream == /\ Len(outcomes) >= 1
                         /\ Is2xx(Last(outcomes).status)
                         /\ Last(outcomes).body
        IN  /\ result.kind = "return" =>
                /\ gotStream
                /\ result.value # Undefined
                /\ result.value[1].stream = "body"
                /\ result.value[1].headers = Last(outcomes).retryAfter
            /\ ~gotStream =>
                /\ result.kind = "throw"
                /\ result.value = Undefined

C13_Witness ==
    /\ mode = "requestStream"
    /\ pc = "done"
    /\ Len(outcomes) = 2
    /\ outcomes[1].status = 503
    /\ outcomes[2].status = 200
    /\ outcomes[2].body
    /\ result.kind = "return"
    /\ result.value[1].stream = "body"

\* A 2xx response without a body gives no handle: the call raises.
C13_WitnessNoBody ==
    /\ mode = "requestStream"
    /\ pc = "done"
    /\ Len(outcomes) = 1
    /\ outcomes[1].status = 200
    /\ ~outcomes[1].body
    /\ result.kind = "throw"


\* C14: where requestStream hands no stream back, no response body received
\* during the call is left open: when the call starts sleeping before the
\* next attempt, and when it has raised, every body it received was read to
\* its end or cancelled.  (The statement as claimed; the retry path breaks
\* it.)
C14_NoBodyLeftOpen ==
    ( /\ mode = "requestStream"
      /\ \/ pc = "sleep"
         \/ pc = "done" /\ result.kind = "throw" )
    => openBodies = 0

\* The raise path alone keeps it: a call that raises without having retried
\* an error response leaves no body open.
C14_RaisePathReadsTheBody ==
    ( /\ mode = "requestStream"
      /\ pc = "done"
      /\ result.kind = "throw"
      /\ \A i \in 1..Len(sleeps) : outcomes[i].status = 0 )
    => openBodies = 0

---------------------------------------------------------------------------
(* C15..C19: the classifier and the outcome of a call. *)

\* C15: raiseForStatus always throws, and the class thrown is fixed by the
\* status alone, whatever the body: 400 InvalidRequestError, 401
\* AuthenticationError, 402 InsufficientBalanceError, 404 NotFoundError, 429
\* RateLimitError, 500 ServerError, and for every other status (502, 503
\* and 504 too) a base LeanvoxError; the error carries the status it was
\* raised for.
C15_ClassFixedByStatus ==
    /\ [](thrown # Undefined =>
            /\ thrown[1].name = ClassifiedName(argStatus)
            /\ thrown[1].statusCode = argStatus
            /\ argStatus \in {502, 503, 504} => thrown[1].name = "LeanvoxError")
    /\ [][RaiseForStatus => thrown' # Undefined]_vars
    /\ [][thrown # Undefined => thrown' = thrown]_vars

C15_Witness ==
    /\ argStatus = 503
    /\ argBody = Some(FullErrorBody)
    /\ thrown # Undefined
    /\ thrown[1].name = "LeanvoxError"
    /\ thrown[1].statusCode = 503


\* C16: when the last response has an error status and its body is absent
\* or does not parse (response.json() rejects), the call raises the error
\* classified from the status, with the message "API error (status
\* <status>)" and the code "unknown", as for an empty object.  (The
\* statement as claimed; the substitute body of the code breaks it.)
C16_UnparsableBodyAsEmptyObject ==
    ( /\ pc = "done"
      /\ Len(outcomes) >= 1
      /\ Last(outcomes).status # 0
      /\ ~Is2xx(Last(outcomes).status)
      /\ jsonCalls # << >>
      /\ ~Last(jsonCalls) )
    => /\ result.kind = "throw"
       /\ result.error[1].name = ClassifiedName(Last(outcomes).status)
       /\ result.error[1].statusCode = Last(outcomes).status
       /\ result.error[1].code = "unknown"
       /\ result.error[1].message =
            "API error (status " \o ToString(Last(outcomes).status) \o ")"

\* What the code keeps of it: the classified error with code "unknown" is
\* raised, never a parse error or a network error.
C16_StillClassified ==
    ( /\ pc = "done"
      /\ Len(outcomes) >= 1
      /\ Last(outcomes).status # 0
      /\ ~Is2xx(Last(outcomes).status)
      /\ jsonCalls # << >>
      /\ ~Last(jsonCalls) )
    => /\ result.kind = "throw"
       /\ result.error[1].name = ClassifiedName(Last(outcomes).status)
       /\ result.error[1].statusCode = Last(outcomes).status
       /\ result.error[1].code = "unknown"

\* C17: a raised error carries the status of the last attempt's response
\* when that attempt received one, and status 0 only when the last attempt
\* was rejected or no attempt was made (max_retries): no call whose last
\* attempt received a response raises status 0.  (The statement as claimed;
\* the code breaks it through the 2xx response whose body does not parse.)
\* The TypeError of new URL() carries no statusCode at all.
C17_StatusOfTheLastResponse ==
    (pc = "done" /\ result.kind = "throw" /\ "statusCode" \in DOMAIN result.error[1]) =>
        /\ (Len(outcomes) >= 1 /\ Last(outcomes).status # 0) =>
                result.error[1].statusCode = Last(outcomes).status
        /\ result.error[1].statusCode = 0 =>
                \/ Len(outcomes) = 0 /\ result.error[1].code = "max_retries"
                \/ /\ Len(outcomes) >= 1
                   /\ Last(outcomes).status = 0
                   /\ result.error[1].code = "network_error"

\* The same off the 2xx responses, where the code keeps it.
C17_HoldsOffTwoXX ==
    ( /\ pc = "done"
      /\ result.kind = "throw"
      /\ "statusCode" \in DOMAIN result.error[1]
      /\ Len(outcomes) >= 1 => ~Is2xx(Last(outcomes).status) )
    => /\ (Len(outcomes) >= 1 /\ Last(outcomes).status # 0) =>
                result.error[1].statusCode = Last(outcomes).status
       /\ result.error[1].statusCode = 0 =>
                \/ Len(outcomes) = 0 /\ result.error[1].code = "max_retries"
                \/ /\ Len(outcomes) >= 1
                   /\ Last(outcomes).status = 0
                   /\ result.error[1].code = "network_error"

\* C18: among the errors of raiseForStatus, balanceCents is set, to the
\* body's error.balance_cents, on the 402 error only, and retryAfter, to
\* the body's error.retry_after, on the 429 error only; the error of every
\* other status has neither, also when the body holds both fields.
C18_KindSpecificFields ==
    thrown # Undefined =>
        LET e     == thrown[1]
            both  == argBody # Undefined
                     /\ argBody[1].error # Undefined
                     /\ argBody[1].error[1].balance_cents = Some(100)
                     /\ argBody[1].error[1].retry_after = Some(60)
            none  == argBody = Undefined \/ argBody[1].error = Undefined
        IN  /\ argStatus # 402 => e.balanceCents = Undefined
            /\ argStatus # 429 => e.retryAfter = Undefined
            /\ (argStatus = 402 /\ both) => e.balanceCents = Some(100)
            /\ (argStatus = 429 /\ both) => e.retryAfter = Some(60)
            /\ none => e.balanceCents = Undefined /\ e.retryAfter = Undefined

C18_Witness ==
    /\ argStatus = 500
    /\ argBody = Some(FullErrorBody)
    /\ thrown # Undefined
    /\ thrown[1].name = "ServerError"
    /\ thrown[1].balanceCents = Undefined
    /\ thrown[1].retryAfter = Undefined

\* C19: a call delivers one outcome.  While it runs nothing is delivered, so
\* the failures of retried attempts stay inside; when it ends it delivers
\* either a value or an error, not both; the outcome comes from the handler
\* of the last attempt (every earlier attempt was followed by a sleep and no
\* attempt follows it); and what was delivered never changes.
C19_OneOutcomeFromTheLastAttempt ==
    /\ [](pc # "done" => result = NoResult)
    /\ [](pc = "done" =>
            /\ result.kind \in {"return", "throw"}
            /\ result.kind = "return" => result.error = Undefined
            /\ result.kind = "throw" =>
                    result.error # Undefined /\ result.value = Undefined
            /\ Len(calls) = Len(outcomes)
            /\ Len(outcomes) >= 1 => Len(sleeps) = Len(outcomes) - 1)
    /\ [][result # NoResult => result' = result]_vars
    /\ [][pc = "done" => pc' = "done"]_vars

C19_Witness ==
    /\ pc = "done"
    /\ maxRetries = 2
    /\ Len(outcomes) = 3
    /\ outcomes[1].status = 0
    /\ outcomes[2].status = 503
    /\ outcomes[3].status = 200
    /\ Len(sleeps) = 2
    /\ result.kind = "return"
    /\ result.error = Undefined

---------------------------------------------------------------------------
(* C20: the asynchronous route of generate(). *)

\* C20: when generate() takes the async route and the jobs it observes are
\* zero or more non-terminal ones followed by a completed one, it returns a
\* result whose audioUrl is that job's audioUrl, the empty string when the
\* completed job has none.
C20_CompletedJobGivesItsAudioUrl ==
    ( /\ requests # << >>
      /\ requests[1].op = "generateAsync"
      /\ observed # << >>
      /\ Last(observed) = Some("completed")
      /\ \A i \in 1..(Len(observed) - 1) :
            observed[i] \notin {Some("completed"), Some("failed")} )
    => /\ gpc = "done"
       /\ generated.kind = "return"
       /\ current # Undefined
       /\ current[1].status = Some("completed")
       /\ current[1].audioUrl # Undefined =>
            generated.value[1].audioUrl = current[1].audioUrl[1]
       /\ current[1].audioUrl = Undefined => generated.value[1].audioUrl = ""
       /\ Len(requests) = Len(observed)
       /\ Len(pollSleeps) = Len(observed) - 1

C20_Witness ==
    /\ gpc = "done"
    /\ autoAsyncThreshold = 10
    /\ options.textLen = 11
    /\ Len(requests) = 2
    /\ requests[1].op = "generateAsync"
    /\ requests[2].op = "getJob"
    /\ observed = <<Some("pending"), Some("completed")>>
    /\ current[1].audioUrl = Some(LongMp3)
    /\ generated.kind = "return"
    /\ generated.value[1].audioUrl = LongMp3

\* The completed job without an audioUrl, observed at once.
C20_WitnessNoAudioUrl ==
    /\ gpc = "done"
    /\ observed = <<Some("completed")>>
    /\ current[1].audioUrl = Undefined
    /\ generated.kind = "return"
    /\ generated.value[1].audioUrl = ""

---------------------------------------------------------------------------
(* C21..C27: the poll loop and the routing of generate(). *)

\* The call took the async route: its first request is the submit.
AsyncRoute == requests # << >> /\ requests[1].op = "generateAsync"

TerminalStatuses == {Some("completed"), Some("failed")}

\* The jobs observed so far are non-terminal, the last one apart.
OnlyLastMayBeTerminal ==
    \A i \in 1..(Len(observed) - 1) : observed[i] \notin TerminalStatuses

\* C21: when the job reaches the status failed, the poller raises an
\* InvalidRequestError (code invalid_request, status 400) and returns no
\* result; the message is the job's error field when it has one and "Async
\* job failed" when it has none.
C21_FailedJobRaises ==
    ( /\ AsyncRoute
      /\ observed # << >>
      /\ Last(observed) = Some("failed")
      /\ OnlyLastMayBeTerminal )
    => /\ gpc = "done"
       /\ generated.kind = "throw"
       /\ generated.value = Undefined
       /\ generated.error[1].name = "InvalidRequestError"
       /\ generated.error[1].code = "invalid_request"
       /\ generated.error[1].statusCode = 400
       /\ current[1].status = Some("failed")
       /\ current[1].error # Undefined =>
            generated.error[1].message = current[1].error[1]
       /\ current[1].error = Undefined =>
            generated.error[1].message = "Async job failed"

C21_Witness ==
    /\ gpc = "done"
    /\ Len(requests) = 2
    /\ requests[1].op = "generateAsync"
    /\ observed = <<Some("pending"), Some("failed")>>
    /\ current[1].error = Some("bad text")
    /\ generated.kind = "throw"
    /\ generated.error[1].message = "bad text"

\* The failed job without an error field.
C21_WitnessNoErrorField ==
    /\ gpc = "done"
    /\ Len(requests) = 2
    /\ observed = <<Some("pending"), Some("failed")>>
    /\ current[1].error = Undefined
    /\ generated.kind = "throw"
    /\ generated.error[1].message = "Async job failed"

\* C22: completed and failed are absorbing: once a job with one of them has
\* been observed, in the submit response or in a poll response, the call has
\* ended, that status alone has decided between the result and the error,
\* and no request, poll sleep or observation follows.
C22_TerminalIsAbsorbing ==
    /\ []((observed # << >> /\ Last(observed) \in TerminalStatuses) =>
            /\ gpc = "done"
            /\ Last(observed) = Some("completed") => generated.kind = "return"
            /\ Last(observed) = Some("failed") => generated.kind = "throw")
    /\ [][(observed # << >> /\ Last(observed) \in TerminalStatuses) =>
            /\ requests' = requests
            /\ pollSleeps' = pollSleeps
            /\ observed' = observed
            /\ current' = current
            /\ generated' = generated]_vars

C22_Witness ==
    /\ gpc = "done"
    /\ Len(requests) = 1
    /\ requests[1].op = "generateAsync"
    /\ observed = <<Some("completed")>>
    /\ pollSleeps = << >>
    /\ generated.kind = "return"


\* How many of the first n observed jobs are non-terminal.
RECURSIVE NonTerminalSeen(_)
NonTerminalSeen(n) ==
    IF n = 0 THEN 0
    ELSE NonTerminalSeen(n - 1)
         + (IF observed[n] \in TerminalStatuses THEN 0 ELSE 1)

\* The job fetches issued so far.
Fetches == {i \in 1..Len(requests) : requests[i].op = "getJob"}

\* C23: on the async route the submit is issued once and first, every other
\* request is a job fetch, and every fetch follows exactly one poll sleep of
\* 2000 ms: there is one sleep per non-terminal job observed, a fetch is
\* issued only by the end of a sleep that no fetch has followed yet, and it
\* is the only thing that follows a sleep, so an ended call made as many
\* fetches as it observed non-terminal jobs (none, and no sleep, when the
\* submit response is terminal).  Every sleep is 2000 ms.
C23_SubmitOnceThenSleepAndFetch ==
    /\ [](AsyncRoute =>
            /\ \A i \in 2..Len(requests) : requests[i].op = "getJob"
            /\ \A i \in 1..Len(pollSleeps) : pollSleeps[i] = 2000
            /\ Len(pollSleeps) = NonTerminalSeen(Len(observed))
            /\ gpc = "wait" => Cardinality(Fetches) = Len(pollSleeps) - 1
            /\ gpc \in {"getJob", "done"} => Cardinality(Fetches) = Len(pollSleeps)
            /\ gpc = "submit" => requests = <<[op |-> "generateAsync", id |-> Undefined]>>
            /\ (Len(observed) >= 1 /\ observed[1] \in TerminalStatuses) =>
                    Len(requests) = 1 /\ pollSleeps = << >>)
    /\ [][(AsyncRoute /\ requests' # requests) =>
            /\ gpc = "wait"
            /\ Len(requests') = Len(requests) + 1
            /\ requests'[Len(requests')].op = "getJob"
            /\ pollSleeps' = pollSleeps
            /\ Last(pollSleeps) = 2000]_vars
    /\ [][pollSleeps' # pollSleeps =>
            /\ gpc \in {"submit", "getJob"}
            /\ gpc' = "wait"
            /\ requests' = requests]_vars
    /\ [][gpc = "wait" => gpc' \in {"wait", "getJob"}]_vars

C23_Witness ==
    /\ gpc = "done"
    /\ Len(requests) = 3
    /\ requests[1].op = "generateAsync"
    /\ requests[2].op = "getJob"
    /\ requests[3].op = "getJob"
    /\ observed = <<Some("pending"), Some("processing"), Some("completed")>>
    /\ pollSleeps = <<2000, 2000>>

\* C24: the poll loop has no iteration cap: as long as the submit response
\* and every fetched job are non-terminal and no request fails, the call has
\* neither returned nor raised; it sleeps or awaits a fetch, and the end of
\* each sleep issues the next fetch, however many jobs were observed.  A
\* request has failed when the call has ended with one request more than it
\* observed jobs.
C24_NoIterationCap ==
    ( /\ AsyncRoute
      /\ observed # << >>
      /\ \A i \in 1..Len(observed) : observed[i] \notin TerminalStatuses
      /\ gpc = "done" => Len(requests) = Len(observed) )
    => /\ gpc \in {"wait", "getJob"}
       /\ generated = NoResult
       /\ Len(requests) \in {Len(observed), Len(observed) + 1}
       /\ gpc = "wait" => ENABLED PollTimerFires

C24_Witness ==
    /\ gpc = "getJob"
    /\ Len(requests) = 4
    /\ requests[4].op = "getJob"
    /\ Len(observed) = 3
    /\ \A i \in 1..3 : observed[i] \notin TerminalStatuses
    /\ pollSleeps = <<2000, 2000, 2000>>
    /\ generated = NoResult

\* C25: when every request the poller issues ends, the server ends the job
\* (it reports at most MaxPolls unfinished jobs) and the poll loop is
\* scheduled fairly, a call on the async route ends: it returns a result or
\* raises.
C25_PollerEnds == AsyncRoute ~> gpc = "done"

C25_Witness ==
    /\ gpc = "done"
    /\ Len(requests) = 4
    /\ requests[1].op = "generateAsync"
    /\ Len(observed) = 4
    /\ OnlyLastMayBeTerminal
    /\ Last(observed) = Some("failed")
    /\ generated.kind = "throw"


\* Options that validateGenerateParams and buildGenerateBody accept, for the
\* plain options of the model: a text of 1 to 10,000 characters and nothing
\* else set.
PlainValidOptions ==
    /\ options.textLen \in 1..10000
    /\ options.model = Undefined
    /\ options.voice = Undefined
    /\ options.voiceInstructions = Undefined
    /\ options.format = Undefined
    /\ options.speed = Undefined
    /\ options.exaggeration = Undefined

\* C26: generate() routes by text length.  A text longer than
\* autoAsyncThreshold makes its first request the generate-async submit,
\* which the poll loop follows; a text of at most autoAsyncThreshold
\* characters (the threshold itself included) makes one synchronous generate
\* request and no submit, job fetch or poll sleep.  With valid options a
\* request is issued.
C26_RoutesByTextLength ==
    /\ requests # << >> =>
        /\ options.textLen > autoAsyncThreshold =>
            /\ requests[1].op = "generateAsync"
            /\ \A i \in 2..Len(requests) : requests[i].op = "getJob"
        /\ options.textLen <= autoAsyncThreshold =>
            /\ requests = <<[op |-> "generate", id |-> Undefined]>>
            /\ observed = << >>
            /\ pollSleeps = << >>
            /\ current = Undefined
            /\ gpc \in {"sync", "done"}
    /\ (PlainValidOptions /\ gpc # "start") => requests # << >>

C26_Witness ==
    /\ gpc = "done"
    /\ autoAsyncThreshold = 5000
    /\ options.textLen = 5000
    /\ requests = <<[op |-> "generate", id |-> Undefined]>>
    /\ generated.kind = "return"

\* One character more goes the async route.
C26_WitnessAsync ==
    /\ gpc = "done"
    /\ autoAsyncThreshold = 5000
    /\ options.textLen = 5001
    /\ Len(requests) = 2
    /\ requests[1].op = "generateAsync"
    /\ requests[2].op = "getJob"
    /\ generated.kind = "return"

\* C27: on a completed job the result's model, voice and characters come
\* from the options of the call (model "standard" and voice "" when not
\* given, characters the length of the text), whatever the job responses
\* carried, and costCents is 0.
C27_MetadataFromTheOptions ==
    ( /\ AsyncRoute
      /\ observed # << >>
      /\ Last(observed) = Some("completed") )
    => /\ generated.kind = "return"
       /\ generated.value[1].model =
            (IF options.model = Undefined THEN "standard" ELSE options.model[1])
       /\ generated.value[1].voice =
            (IF options.voice = Undefined THEN "" ELSE options.voice[1])
       /\ generated.value[1].characters = options.textLen
       /\ generated.value[1].costCents = 0

C27_Witness ==
    /\ gpc = "done"
    /\ AsyncRoute
    /\ observed # << >>
    /\ Last(observed) = Some("completed")
    /\ options.textLen = 11
    /\ options.model = Undefined
    /\ options.voice = Undefined
    /\ generated.kind = "return"
    /\ generated.value[1].model = "standard"
    /\ generated.value[1].voice = ""
    /\ generated.value[1].characters = 11
    /\ generated.value[1].costCents = 0

\* Options that give a model and a voice.
C27_WitnessGiven ==
    /\ gpc = "done"
    /\ AsyncRoute
    /\ observed # << >>
    /\ Last(observed) = Some("completed")
    /\ options.model = Some("pro")
    /\ options.voice = Some("af_heart")
    /\ generated.kind = "return"
    /\ generated.value[1].model = "pro"
    /\ generated.value[1].voice = "af_heart"


\* C28: each attempt arms one deadline timer, and the timer is released when
\* the attempt's fetch settles, whatever it settles with.  The timer is
\* armed exactly while the fetch is pending: never while the call reads a
\* body, sleeps, tests the loop or has ended.  An attempt starts with no
\* timer armed and arms one, and nothing else arms a timer, so no call has
\* two timers armed.
C28_OneTimerPerAttempt ==
    /\ [](pc # "rest" => (timer <=> pc = "fetch"))
    /\ [][Len(calls') > Len(calls) => ~timer /\ timer']_vars
    /\ [][(timer' /\ ~timer) => Len(calls') = Len(calls) + 1]_vars
    /\ [][Len(outcomes') > Len(outcomes) => timer /\ ~timer']_vars

\* A call that went through a connection fault, a deadline abort and an
\* error status, and sleeps with no timer armed.
C28_Witness ==
    /\ pc = "sleep"
    /\ ~timer
    /\ Len(outcomes) = 2
    /\ outcomes[1].fault = "ECONNREFUSED"
    /\ outcomes[2].fault = "This operation was aborted"

\* The same after an error status and after a 2xx response.
C28_WitnessErrorStatus ==
    /\ pc = "done"
    /\ ~timer
    /\ Len(outcomes) = 2
    /\ outcomes[1].status = 503
    /\ outcomes[2].status = 200
    /\ result.kind = "return"


\* The message of the rejection a deadline abort gives.
AbortMessage == "This operation was aborted"

\* What follows the rejection with the given message at outcome i, as the
\* logs show it: the sleep, the next deadline, or the error raised.
AfterFault(i) ==
    IF calls[i] < maxRetries
    THEN /\ Len(sleeps) >= i
         /\ sleeps[i] = ScheduleEntry(calls[i])
         /\ (pc = "done" => Len(calls) > i)
         /\ Len(deadlines) > i => deadlines[i + 1] = deadlines[1]
    ELSE /\ pc = "done"
         /\ Len(outcomes) = i
         /\ Len(sleeps) = i - 1
         /\ result.kind = "throw"
         /\ result.error[1].code = "network_error"
         /\ result.error[1].statusCode = 0

\* C29: a deadline abort ends only its attempt and is handled as a
\* connection fault is: with attempts remaining the call sleeps the entry of
\* the backoff schedule and starts the next attempt under a deadline of the
\* full effective timeout (the call's timeoutMs, else the client's timeout,
\* 120 s for requestStream); on the last attempt it raises network_error
\* with status 0.  Every attempt's deadline is the full one, whatever the
\* attempts and sleeps before it took.
C29_DeadlinePerAttempt ==
    /\ \A i \in 1..Len(outcomes) :
           outcomes[i].fault \in {AbortMessage, "ECONNREFUSED"} => AfterFault(i)
    /\ Len(deadlines) = Len(calls)
    /\ \A j \in 1..Len(deadlines) :
           deadlines[j] = (IF timeoutMs # Undefined THEN timeoutMs[1]
                           ELSE IF mode = "requestStream" THEN 120000
                           ELSE timeout * 1000)

\* Three attempts of 10 s each end in a deadline abort, with sleeps of 1 s
\* and 2 s between them: the third attempt still ran under the full 10 s,
\* and the call raised network_error.
C29_Witness ==
    /\ pc = "done"
    /\ mode = "request"
    /\ maxRetries = 2
    /\ timeoutMs = Undefined
    /\ Len(outcomes) = 3
    /\ \A i \in 1..3 : outcomes[i].fault = AbortMessage
    /\ deadlines = <<10000, 10000, 10000>>
    /\ sleeps = <<Decimal(1000), Decimal(2000)>>
    /\ result.kind = "throw"
    /\ result.error[1].code = "network_error"
    /\ result.error[1].statusCode = 0

\* An abort followed by a successful attempt under the call's own timeoutMs.
C29_WitnessRecovers ==
    /\ pc = "done"
    /\ timeoutMs = <<5000>>
    /\ Len(outcomes) = 2
    /\ outcomes[1].fault = AbortMessage
    /\ outcomes[2].status = 200
    /\ deadlines = <<5000, 5000>>
    /\ sleeps = <<Decimal(1000)>>
    /\ result.kind = "return"


\* What a call of mode m on a client of n retries does alone when its
\* fetches settle with os, from attempt a on: the number of its attempts,
\* its sleeps, and its result (none while it still runs).
RECURSIVE Alone(_, _, _, _, _)
Alone(m, n, os, a, acc) ==
    IF ~LoopGuard(a, n)
    THEN [acc EXCEPT !.result = ResultOf(MaxRetriesExceeded)]
    ELSE IF os = << >>
    THEN acc
    ELSE LET d == Handle(m, a, n, Head(os))
         IN  IF d.kind = "retry"
             THEN Alone(m, n, Tail(os), a + 1,
                        [acc EXCEPT !.attempts = @ + 1,
                                    !.sleeps = Append(@, d.delay[1])])
             ELSE [acc EXCEPT !.attempts = @ + 1, !.result = ResultOf(d)]

AloneFromStart(r) ==
    Alone(r.mode, config[1].maxRetries, r.outcomes, 0,
          [attempts |-> 0, sleeps |-> << >>, result |-> NoResult])

\* The call is between handlers: what its outcomes led to is in its logs.
Quiet(r) == r.pc \in {"loop", "fetch", "sleep", "done"}

\* C30: concurrent executor calls on one client do not interfere.  Each
\* step changes the locals of one call only; whatever the interleaving, a
\* call's sleeps are, and once it has ended its number of attempts and its
\* result are, those of the same call running alone with the same outcome
\* per attempt; a call has at most maxRetries + 1 attempts, its attempt
\* counter counts its own sleeps; and the client's baseUrl, apiKey, timeout
\* and maxRetries never change.
C30_CallsDoNotInterfere ==
    /\ [](\A c \in DOMAIN running :
            /\ Quiet(running[c]) =>
                 running[c].sleeps = AloneFromStart(running[c]).sleeps
            /\ running[c].pc = "done" =>
                 /\ running[c].result = AloneFromStart(running[c]).result
                 /\ running[c].fetches = AloneFromStart(running[c]).attempts
                 /\ running[c].fetches = Len(running[c].outcomes)
            /\ running[c].pc # "done" => running[c].result = NoResult
            /\ running[c].fetches <= config[1].maxRetries + 1
            /\ running[c].attempt = Len(running[c].sleeps)
                 - (IF running[c].pc = "sleep" THEN 1 ELSE 0))
    /\ [][\A c \in DOMAIN running :
            running'[c] # running[c] =>
                \A e \in DOMAIN running \ {c} : running'[e] = running[e]]_vars
    /\ [][config' = config]_vars

\* Both calls have ended, one after a retry and the other without one, and
\* the second call started while the first was sleeping or later.
C30_Witness ==
    /\ running # << >>
    /\ config[1].maxRetries = 1
    /\ running[1].pc = "done"
    /\ running[2].pc = "done"
    /\ running[1].mode = "request"
    /\ running[2].mode = "upload"
    /\ running[1].sleeps = <<Decimal(1500)>>
    /\ running[1].fetches = 2
    /\ running[1].result.kind = "return"
    /\ running[2].sleeps = << >>
    /\ running[2].fetches = 1
    /\ running[2].result.kind = "throw"

\* The two calls are in flight at once, each with its own timer, at
\* different attempts.
C30_WitnessInFlight ==
    /\ running # << >>
    /\ running[1].pc = "fetch"
    /\ running[2].pc = "fetch"
    /\ running[1].timer
    /\ running[2].timer
    /\ running[1].attempt = 1
    /\ running[2].attempt = 0


\* The options the validation is to reject: an empty text, a text of more
\* than 10,000 characters, a model other than standard, pro and max, a speed
\* outside 0.5..2.0 (tenths: 5..20), an exaggeration other than 0.5 on the
\* standard model, a format other than mp3 and wav.
InvalidOptions ==
    \/ options.textLen = 0
    \/ options.textLen > 10000
    \/ options.model # Undefined /\ options.model[1] \notin {"standard", "pro", "max"}
    \/ options.speed # Undefined /\ options.speed[1] \notin 5..20
    \/ /\ options.exaggeration # Undefined
       /\ options.exaggeration[1] # 5
       /\ options.model \in {Undefined, <<"standard">>}
    \/ options.format # Undefined /\ options.format[1] \notin {"mp3", "MP3", "wav", "WAV"}

RaisedBeforeAnyRequest(name) ==
    /\ gpc = "done"
    /\ generated.kind = "throw"
    /\ generated.error[1].name = name
    /\ requests = << >>

\* C31: generate, generateAsync and stream called with invalid options raise
\* InvalidRequestError before any request is issued; stream called with
\* valid options whose format is not mp3 raises StreamingFormatError, also
\* before any request.
C31_InvalidOptionsRaiseFirst ==
    gpc # "start" =>
        /\ InvalidOptions => RaisedBeforeAnyRequest("InvalidRequestError")
        /\ ( /\ method = "stream"
             /\ ~InvalidOptions
             /\ options.format \in {<<"wav">>, <<"WAV">>} )
           => RaisedBeforeAnyRequest("StreamingFormatError")

C31_Witness ==
    /\ method = "generateAsync"
    /\ options.textLen = 10001
    /\ RaisedBeforeAnyRequest("InvalidRequestError")

C31_WitnessStream ==
    /\ method = "stream"
    /\ options.textLen = 10
    /\ options.format = <<"wav">>
    /\ options.model = <<"standard">>
    /\ RaisedBeforeAnyRequest("StreamingFormatError")

C31_WitnessGenerate ==
    /\ method = "generate"
    /\ options.textLen = 10
    /\ options.format = <<"ogg">>
    /\ RaisedBeforeAnyRequest("InvalidRequestError")

\* With mp3 (in either case) stream issues its request.
C31_WitnessStreams ==
    /\ method = "stream"
    /\ options.format = <<"MP3">>
    /\ Len(requests) = 1
    /\ requests[1].op = "stream"
    /\ generated.kind = "return"


\* A key that is given: not undefined and not the empty string.
Given(key) == key # Undefined /\ key # <<<< >>>>

\* The key of the config file, as the file's content has it.
KeyOfTheFile ==
    CASE configFile = <<"api_key = \"lv_live_c\"">>
           -> <<<<"l", "v", "_", "l", "i", "v", "e", "_", "c">>>>
      [] configFile = <<"# key\napi_key='bad_key'\n">>
           -> <<<<"b", "a", "d", "_", "k", "e", "y">>>>
      [] configFile = <<"api_key =\napi_key = lv_test_c">>
           -> <<<<"l", "v", "_", "t", "e", "s", "t", "_", "c">>>>
      [] OTHER -> << >>

\* The key by the order of resolution: explicit, environment, config file.
ResolvedKey ==
    IF Given(leanvoxOptions.apiKey) THEN leanvoxOptions.apiKey
    ELSE IF Given(envKey) THEN envKey
    ELSE KeyOfTheFile

HasValidPrefix(key) ==
    /\ Len(key) >= 8
    /\ SubSeq(key, 1, 3) = <<"l", "v", "_">>
    /\ SubSeq(key, 4, 8) \in {<<"l", "i", "v", "e", "_">>, <<"t", "e", "s", "t", "_">>}

\* C32: resolveApiKey returns the explicit key when one is given, else the
\* LEANVOX_API_KEY environment variable, else the key of the config file,
\* else undefined; the constructor creates a client, holding that key, when
\* the resolved key is non-empty and starts with lv_live_ or lv_test_, and
\* raises AuthenticationError otherwise.
C32_KeyResolutionAndValidation ==
    /\ leanvoxOptions # Undefined =>
          resolveApiKey(leanvoxOptions.apiKey, envKey, configFile) = ResolvedKey
    /\ constructed.kind = "return" =>
          /\ Given(ResolvedKey)
          /\ HasValidPrefix(ResolvedKey[1])
          /\ constructed.value.http.apiKey = ResolvedKey[1]
    /\ constructed.kind = "throw" =>
          /\ ~(Given(ResolvedKey) /\ HasValidPrefix(ResolvedKey[1]))
          /\ constructed.error.name = "AuthenticationError"
          /\ constructed.error.statusCode = 401

\* The explicit key is missing, the environment holds a valid one and the
\* file another: the client is created with the environment's key.
C32_Witness ==
    /\ constructed.kind = "return"
    /\ leanvoxOptions.apiKey = Undefined
    /\ envKey = <<<<"l", "v", "_", "l", "i", "v", "e", "_", "e">>>>
    /\ configFile = <<"api_key = \"lv_live_c\"">>
    /\ constructed.value.http.apiKey = <<"l", "v", "_", "l", "i", "v", "e", "_", "e">>

\* An explicit key with a wrong prefix is not replaced by a valid one of the
\* environment: the constructor raises.
C32_WitnessBadPrefix ==
    /\ constructed.kind = "throw"
    /\ leanvoxOptions.apiKey = <<<<"s", "k", "_", "l", "i", "v", "e", "_", "a">>>>
    /\ envKey = <<<<"l", "v", "_", "l", "i", "v", "e", "_", "e">>>>
    /\ constructed.error.name = "AuthenticationError"

\* No source has a key.
C32_WitnessNoKey ==
    /\ constructed.kind = "throw"
    /\ leanvoxOptions.apiKey = Undefined
    /\ envKey = Undefined
    /\ configFile = Undefined
    /\ constructed.error.code = "invalid_api_key"

\* The key comes from the config file.
C32_WitnessFromFile ==
    /\ constructed.kind = "return"
    /\ leanvoxOptions.apiKey = <<<< >>>>
    /\ envKey = Undefined
    /\ constructed.value.http.apiKey = <<"l", "v", "_", "t", "e", "s", "t", "_", "c">>


\* C33: whenever an executor call waits on the network, for the response
\* headers (the pending fetch) or for the response body (the pending
\* response.json()), the deadline timer of the attempt is armed.  (The
\* statement as claimed; the code clears the timer when the headers arrive,
\* before it reads the body.)
C33_NetworkWaitsHaveADeadline == pc \in {"fetch", "body"} => timer

\* The part of it the code keeps: the wait for the headers has a deadline.
C33_HeadersWaitHasADeadline == pc = "fetch" => timer


\* The call's timeoutMs when it gives one, else the client's timeout in
\* milliseconds.
ConfiguredTimeout == IF timeoutMs # Undefined THEN timeoutMs[1] ELSE timeout * 1000

\* C34: the deadline of every attempt is the call's timeoutMs when it gives
\* one, and the client's timeout (seconds x 1000) otherwise, in request,
\* requestStream and upload alike.  (The statement as claimed; requestStream
\* does not use the client's timeout.)
C34_DeadlineIsTheConfiguredTimeout ==
    \A j \in 1..Len(deadlines) : deadlines[j] = ConfiguredTimeout

\* request and upload keep it, and requestStream keeps it for a call that
\* gives its own timeoutMs.
C34_HoldsOffStreamDefault ==
    (mode # "requestStream" \/ timeoutMs # Undefined) =>
        \A j \in 1..Len(deadlines) : deadlines[j] = ConfiguredTimeout


\* C35: every attempt of a call sends the request attempt 0 sent: the same
\* method, URL (query parameters included), headers and body; one request
\* is sent per attempt; and the client's fields and the call's arguments
\* never change during the call.
C35_SameRequestEveryAttempt ==
    /\ [](/\ Len(sent) = Len(calls)
          /\ \A i \in 1..Len(sent) : sent[i] = sent[1])
    /\ [][/\ baseUrl' = baseUrl
          /\ apiKey' = apiKey
          /\ args' = args
          /\ mode' = mode
          /\ maxRetries' = maxRetries
          /\ timeout' = timeout
          /\ timeoutMs' = timeoutMs]_vars

\* Three attempts of a GET with query parameters, the empty one left out.
C35_Witness ==
    /\ mode = "request"
    /\ Len(sent) = 3
    /\ sent[3].method = "GET"
    /\ sent[3].url = "https://api.leanvox.com/v1/account/usage?days=7&limit=10"
    /\ sent[3].headers.Authorization = "Bearer lv_live_key"
    /\ sent[3].body = << >>
    /\ sent[1] = sent[3]
    /\ sleeps = <<Decimal(1000), Decimal(2000)>>

\* Two attempts of a POST with a JSON body.
C35_WitnessBody ==
    /\ mode = "requestStream"
    /\ Len(sent) = 2
    /\ sent[2].method = "POST"
    /\ sent[2].body = <<"{\"text\":\"hi\"}">>
    /\ sent[2].headers.ContentType = "application/json"
    /\ sent[1] = sent[2]


\* C36: a backoff sleep occurs only between two consecutive attempts.  No
\* sleep comes before the first attempt; every sleep follows an attempt and
\* is followed by the next one (the loop test passes after it); the step
\* that ends the call adds no sleep; so a call that has ended after a >= 1
\* attempts made a - 1 sleeps.
C36_SleepsOnlyBetweenAttempts ==
    /\ [](/\ calls = << >> => sleeps = << >>
          /\ Len(sleeps) <= Len(calls)
          /\ calls # << >> => Len(sleeps) >= Len(calls) - 1
          /\ pc = "sleep" => (Len(sleeps) = Len(calls) /\ attempt + 1 <= maxRetries)
          /\ (pc = "done" /\ calls # << >>) => Len(sleeps) = Len(calls) - 1)
    /\ [][(pc' = "done" /\ pc # "done") => sleeps' = sleeps]_vars
    /\ [][Len(sleeps') > Len(sleeps) => pc' = "sleep"]_vars

\* A call of three attempts that raised after the last one: two sleeps.
C36_Witness ==
    /\ pc = "done"
    /\ maxRetries = 2
    /\ Len(calls) = 3
    /\ Len(sleeps) = 2
    /\ result.kind = "throw"
    /\ outcomes[3].status = 503


MaxRetriesRaised ==
    /\ result.kind = "throw"
    /\ result.error[1].name = "LeanvoxError"
    /\ result.error[1].code = "max_retries"

\* C37: "Max retries exceeded" (code max_retries, status 0) is raised only
\* by a client whose maxRetries is negative, and then with no attempt and no
\* sleep; with maxRetries >= 0 the loop test never fails, because the
\* attempt of index maxRetries returns or raises.  (A call whose new URL()
\* threw never reaches the loop.)
C37_MaxRetriesOnlyWhenNegative ==
    /\ MaxRetriesRaised =>
          /\ maxRetries < 0
          /\ calls = << >>
          /\ sleeps = << >>
          /\ result.error[1].statusCode = 0
          /\ result.error[1].message = "Max retries exceeded"
    /\ (pc = "loop" /\ maxRetries >= 0) => attempt <= maxRetries
    /\ (pc = "done" /\ url # Undefined /\ maxRetries < 0) => MaxRetriesRaised
    /\ (pc = "done" /\ url # Undefined /\ maxRetries >= 0) => calls # << >>

C37_Witness ==
    /\ pc = "done"
    /\ maxRetries = -1
    /\ MaxRetriesRaised
    /\ calls = << >>
    /\ sent = << >>

\* With maxRetries = 0 the one attempt ends the call.
C37_WitnessZero ==
    /\ pc = "done"
    /\ maxRetries = 0
    /\ Len(calls) = 1
    /\ result.kind = "throw"
    /\ result.error[1].code = "network_error"


\* The last request of the call gave no job: it raised.
LastRequestRaised == Len(requests) = Len(observed) + 1

\* C38: an error of the poller's own requests ends the call with that error.
\* A submit or job fetch that raises delivers its error as it is, with no
\* further request and no further sleep; before every poll sleep each
\* request made so far has given a job, so a failed fetch is never tried
\* again; a submit that raises leaves no sleep and no fetch behind.
C38_RequestErrorsPropagate ==
    /\ [](AsyncRoute =>
            /\ gpc \in {"wait", "getJob"} => Len(pollSleeps) = Len(observed)
            /\ gpc = "wait" => Len(requests) = Len(observed)
            /\ (gpc = "done" /\ LastRequestRaised) =>
                  /\ generated.kind = "throw"
                  /\ Len(pollSleeps) = Len(observed)
                  /\ Len(requests) = 1 => (pollSleeps = << >> /\ current = Undefined))
    /\ [][((SubmitSettles \/ GetJobSettles) /\ Head(answers).kind = "throw") =>
                /\ generated' = Head(answers)
                /\ gpc' = "done"
                /\ requests' = requests
                /\ pollSleeps' = pollSleeps]_vars
    /\ [][gpc = "done" => (requests' = requests /\ pollSleeps' = pollSleeps
                            /\ generated' = generated)]_vars

\* The second job fetch raised NotFoundError: the call ended with it after
\* three requests and two sleeps.
C38_Witness ==
    /\ gpc = "done"
    /\ Len(requests) = 3
    /\ requests[1].op = "generateAsync"
    /\ requests[3].op = "getJob"
    /\ Len(observed) = 2
    /\ Len(pollSleeps) = 2
    /\ generated.kind = "throw"
    /\ generated.error[1].name = "NotFoundError"

\* The submit raised a network error.
C38_WitnessSubmit ==
    /\ gpc = "done"
    /\ Len(requests) = 1
    /\ requests[1].op = "generateAsync"
    /\ observed = << >>
    /\ pollSleeps = << >>
    /\ generated.kind = "throw"
    /\ generated.error[1].name = "LeanvoxError"
    /\ generated.error[1].message = "Network error: ECONNREFUSED"


\* C39: every job fetch of the poller targets the id of the job the submit
\* returned, whatever ids the poll responses carry.  The first fetch targets
\* the id of the submitted job, and every later fetch targets the same id.
\* (The statement as claimed; the code takes the id from the latest
\* response.)
C39_FetchesTargetTheSubmittedJob ==
    /\ [][(gpc = "wait" /\ Len(observed) = 1 /\ gpc' = "getJob") =>
              Last(requests').id = Some(current[1].id)]_vars
    /\ [](AsyncRoute =>
              \A i \in 2..Len(requests) : requests[i].id = requests[2].id)

\* What the code does: each fetch targets the id of the job held in
\* `current`, the latest response, which replaces the job wholesale.
C39_FetchesTargetTheLatestJob ==
    [][(gpc = "wait" /\ gpc' = "getJob") =>
          /\ Len(requests') = Len(requests) + 1
          /\ Last(requests').op = "getJob"
          /\ Last(requests').id = Some(current[1].id)
          /\ current' = current]_vars


\* A status outside pending, processing, completed and failed: an
\* unrecognised one, or none.
Unrecognised(status) ==
    status \notin {<<"pending">>, <<"processing">>, <<"completed">>, <<"failed">>}

\* C40: a job whose status is not one of pending, processing, completed and
\* failed (an unrecognised or a missing status) is polled again: after
\* observing it the call sleeps the poll interval and fetches the job again;
\* it does not return, and it raises only if that fetch raises.
C40_UnrecognisedStatusIsPolledAgain ==
    /\ [](\A i \in 1..Len(observed) :
            Unrecognised(observed[i]) =>
                /\ Len(pollSleeps) >= i
                /\ pollSleeps[i] = ASYNC_POLL_INTERVAL
                /\ i = Len(observed) =>
                      /\ gpc \in {"wait", "getJob", "done"}
                      /\ gpc = "wait" => (generated = NoResult /\ Len(requests) = i)
                      /\ gpc = "getJob" => (generated = NoResult /\ Len(requests) = i + 1)
                      /\ gpc = "done" => (generated.kind = "throw" /\ Len(requests) = i + 1)
                /\ i < Len(observed) => Len(requests) > i)
    /\ [](gpc = "wait" => ENABLED PollTimerFires)

\* The submit returned a job with the status "queued", a fetch one with no
\* status: both were polled again, and the job then completed.
C40_Witness ==
    /\ gpc = "done"
    /\ observed = <<<<"queued">>, << >>, <<"completed">>>>
    /\ pollSleeps = <<2000, 2000>>
    /\ Len(requests) = 3
    /\ requests[3].op = "getJob"
    /\ generated.kind = "return"

===========================================================================
